---------------------------- MODULE Spec2Model ----------------------------
(***************************************************************************)
(* Verification model of the terminal-data repository: the alert engine    *)
(* (src/modules/alerts), its notification dispatcher and the TradingView   *)
(* quote Scaler (src/shared/provider/tradingview/quote_scaler.py).         *)
(*                                                                         *)
(* Several specifications share the module, one per component:             *)
(*   SpecEngine      AlertEngine + AlertManager + evaluator + AlertStore   *)
(*   SpecDispatcher  NotificationDispatcher                                *)
(*   SpecScaler      TradingViewScaler with its node tasks                 *)
(* Each leaves the variables of the other components unchanged.            *)
(***************************************************************************)
EXTENDS Integers, Sequences, FiniteSets, TLC

VARIABLES
    \* ---- alert engine --------------------------------------------------
    store,              \* the alerts table: id -> row, or NoRow
    alerts_by_symbol,   \* AlertManager._alerts_by_symbol, a dict in insertion order
    subscribed,         \* keys of the provider's Scaler ticker_to_node
    phase,              \* position of AlertEngine.start / the worker process
    feed,               \* handler tasks created by the change feed, FIFO
    tick,               \* the _on_price_tick coroutine: pc, update, snapshot, alert
    enqueued,           \* alerts _on_price_tick put on the dispatcher queue
    marks,              \* mark_alert_triggered writes the store executed
    \* ---- dispatcher ----------------------------------------------------
    queue,              \* NotificationDispatcher.queue
    handlers,           \* NotificationDispatcher.handlers
    dloop,              \* position of dispatch_loop / _handle_alert
    enqLog,             \* history: every alert enqueued, in order
    callLog,            \* history: every handler invocation, in order
    \* ---- scaler --------------------------------------------------------
    nodes,              \* Scaler.nodes as a dict in insertion order: <<id, tickers>>
    ticker_to_node,     \* Scaler.ticker_to_node
    node_tasks,         \* Scaler.node_tasks: node id -> task
    node_streamers,     \* Scaler.node_streamers: node id -> the streamer has a socket
    event_queues,       \* keys of Scaler._event_queues
    quotes,             \* Scaler.quotes: tickers with a stored quote
    running,            \* Scaler.running
    orphans,            \* running _run_node tasks that nothing refers to
    calls,              \* add_tickers / remove_tickers calls in progress
    qitems,             \* contents of the queues of _event_queues: node id -> events
    produced,           \* events the node tasks have put so far
    stopcall,           \* position of a stop() call
    consumer,           \* position of a quote_events() consumer and what it holds
    yielded,            \* history: events quote_events() has yielded, in order
    \* ---- quote streamer ------------------------------------------------
    stream,             \* a TradingViewQuoteStreamer and the position of its stream_quotes
    shist,              \* history: events emitted, connections tried, sleeps, messages
    \* ---- screener sessions of one WebSocket connection -------------------
    wss,                \* WSSession: token, the table ss, sessions made, popped sessions
    wlog,               \* history: requests handled and messages sent, in order
    \* ---- scanner ---------------------------------------------------------
    cache,              \* ExpressionCache._cache of the engine's evaluator
    scans,              \* history: the requests of POST /scan and their outputs
    \* ---- functions ------------------------------------------------------
    call                \* the last call of a function: its arguments and result

engineVars == <<store, alerts_by_symbol, subscribed, phase, feed, tick, enqueued, marks>>
dispVars   == <<queue, handlers, dloop, enqLog, callLog>>
scalerVars == <<nodes, ticker_to_node, node_tasks, node_streamers, event_queues,
                quotes, running, orphans, calls>>
eventVars  == <<qitems, produced, stopcall, consumer, yielded>>
laterVars  == <<produced, stopcall, consumer, yielded>>
streamVars == <<stream, shist>>
screenVars == <<wss, wlog>>
scanVars   == <<cache, scans>>
callVars   == <<call>>
pureVars   == <<scanVars, callVars>>
otherVars  == <<streamVars, screenVars, pureVars>>
vars       == <<engineVars, dispVars, scalerVars, eventVars, otherVars>>

----------------------------------------------------------------------------
(* Generic helpers                                                          *)

Range(s) == {s[i] : i \in DOMAIN s}

RECURSIVE SeqFilterOut(_, _)
\* [a for a in s if a.id != id]
SeqFilterOut(s, id) ==
    IF s = <<>> THEN <<>>
    ELSE IF Head(s).id = id THEN SeqFilterOut(Tail(s), id)
         ELSE <<Head(s)>> \o SeqFilterOut(Tail(s), id)

\* list.remove(x): drops the first element equal to x
RemoveAt(s, i) == SubSeq(s, 1, i - 1) \o SubSeq(s, i + 1, Len(s))

\* s[:n] and s[n:] of Python, for n >= 0
Take(s, n) == SubSeq(s, 1, IF n < Len(s) THEN n ELSE Len(s))
Drop(s, n) == SubSeq(s, (IF n < Len(s) THEN n ELSE Len(s)) + 1, Len(s))

----------------------------------------------------------------------------
(* Bounds and input sets                                                    *)

Ids     == {"A", "B"}
Symbols == {"X", "Y"}

MaxFeed == 2        \* handler tasks waiting on the event loop at one time

\* Prices in units of 0.0001: 99, 100, 100.0001 and 101
Prices == {990000, 1000000, 1000001, 1010000}
\* Tick times in seconds
Times  == {0, 50, 100}

\* rhs_attr shapes of an alert: operator, rhs_type, the constant, the trend line
ConstantGT100 == [operator |-> ">", rhs_type |-> "constant", constant |-> 1000000,
                  trend_line |-> <<>>]
TrendTwoPoints == [operator |-> ">=", rhs_type |-> "trend_line", constant |-> 0,
                   trend_line |-> <<[time |-> 0, price |-> 1000000],
                                    [time |-> 100, price |-> 2000000]>>]
TrendOnePoint == [operator |-> ">=", rhs_type |-> "trend_line", constant |-> 0,
                  trend_line |-> <<[time |-> 0, price |-> 1000000]>>]
Shapes == {ConstantGT100, TrendTwoPoints, TrendOnePoint}
\* The shapes of the alerts in the table
RowShapes == {ConstantGT100, TrendOnePoint}

\* A row of the alerts table, without its id
Rows == [symbol : Symbols, shape : RowShapes, is_active : BOOLEAN, deleted : BOOLEAN]
LiveRow(r) == r.is_active /\ ~r.deleted

\* Alert.model_validate(row): the fields the engine reads
Alert(id, r) == [id |-> id, symbol |-> r.symbol, shape |-> r.shape]

Updates == [symbol : Symbols, ltp : Prices, ltt : Times]


----------------------------------------------------------------------------
(* AlertManager (src/modules/alerts/alert_manager.py).  The dict            *)
(* _alerts_by_symbol is a sequence of <<symbol, alerts>> entries in         *)
(* insertion order, as Python iterates it.                                  *)

KeyIndex(m, s) ==
    IF \E i \in DOMAIN m : m[i].symbol = s
    THEN CHOOSE i \in DOMAIN m : m[i].symbol = s
    ELSE 0

get_alerts_for_symbol(m, s) ==
    IF KeyIndex(m, s) = 0 THEN <<>> ELSE m[KeyIndex(m, s)].alerts

has_alerts_for_symbol(m, s) ==
    KeyIndex(m, s) # 0 /\ Len(m[KeyIndex(m, s)].alerts) > 0

add_alert(m, a) ==
    IF KeyIndex(m, a.symbol) = 0
    THEN Append(m, [symbol |-> a.symbol, alerts |-> <<a>>])
    ELSE [m EXCEPT ![KeyIndex(m, a.symbol)].alerts = Append(@, a)]

remove_alert(m, a) ==
    LET i == KeyIndex(m, a.symbol) IN
    IF i = 0 \/ get_alerts_for_symbol(m, a.symbol) = <<>> THEN m
    ELSE LET kept == SeqFilterOut(m[i].alerts, a.id) IN
         IF kept = <<>> THEN RemoveAt(m, i)
         ELSE [m EXCEPT ![i].alerts = kept]

\* The first <<bucket, position>> holding the id, in iteration order
FirstMatch(m, id) ==
    LET hits == {p \in UNION {{<<i, j>> : j \in DOMAIN m[i].alerts} : i \in DOMAIN m} :
                    m[p[1]].alerts[p[2]].id = id}
    IN IF hits = {} THEN <<0, 0>>
       ELSE CHOOSE p \in hits :
                \A q \in hits : p[1] < q[1] \/ (p[1] = q[1] /\ p[2] <= q[2])

\* Returns the new dict and the removed alert: <<alert>>, or <<>> for None
remove_alert_by_id(m, id) ==
    LET p == FirstMatch(m, id) IN
    IF p = <<0, 0>> THEN [m |-> m, removed |-> <<>>]
    ELSE LET rest == RemoveAt(m[p[1]].alerts, p[2]) IN
         [m |-> IF rest = <<>> THEN RemoveAt(m, p[1])
                ELSE [m EXCEPT ![p[1]].alerts = rest],
          removed |-> <<m[p[1]].alerts[p[2]]>>]

\* update_alert without its removal
AddOnly(m, a) == add_alert(m, a)

update_alert(m, a) == add_alert(remove_alert_by_id(m, a.id).m, a)

\* Symbols that have a bucket, and all alerts held
ManagerSymbols(m) == {m[i].symbol : i \in DOMAIN m}
ManagerAlerts(m) == UNION {Range(m[i].alerts) : i \in DOMAIN m}
ManagerIds(m) == {a.id : a \in ManagerAlerts(m)}

----------------------------------------------------------------------------
(* Evaluator (src/modules/alerts/evaluator.py, models.py)                   *)

\* OPERATORS[alert.operator](lhs, rhs)
ApplyOperator(op, lhs, rhs) ==
    CASE op = ">"  -> lhs > rhs
      [] op = ">=" -> lhs >= rhs
      [] op = "<"  -> lhs < rhs
      [] op = "<=" -> lhs <= rhs
      [] op = "==" -> lhs = rhs
      [] op = "!=" -> lhs # rhs
      [] OTHER     -> FALSE

\* A Python value an expression gives: a number, None, or a raised exception
Value(v) == [kind |-> "value", v |-> v]
None     == [kind |-> "none", v |-> 0]
Raised   == [kind |-> "raise", v |-> 0]

\* rhs_attr.get("constant"): rhs_attr is an RHSAttr model (models.py:17-19,36),
\* which has no method get, so the attribute lookup raises AttributeError
RhsAttrGet(shape, key) == Raised

\* Alert.get_constant_value
get_constant_value(shape) ==
    IF shape.rhs_type = "constant" THEN RhsAttrGet(shape, "constant") ELSE None

\* p.timestamp: a Point has the fields time and price (models.py:7-9) and no
\* attribute timestamp, so the lookup raises AttributeError
PointTimestamp(p) == Raised

\* interpolate_trendline(p1, p2, now)
interpolate_trendline(p1, p2, now) ==
    LET t1 == PointTimestamp(p1)
        t2 == PointTimestamp(p2)
    IN IF t1.kind = "raise" \/ t2.kind = "raise" THEN Raised
       ELSE IF now < t1.v \/ now > t2.v THEN None
       ELSE LET total_seconds == t2.v - t1.v
                elapsed_seconds == now - t1.v
            IN IF total_seconds = 0 THEN Value(p1.price)
               ELSE Value(p1.price
                          + ((p2.price - p1.price) * elapsed_seconds) \div total_seconds)

\* evaluate_alert(alert, update): "true", "false" or "raise"
evaluate_alert(alert, update) ==
    LET shape == alert.shape
        Result(rhs) ==
            IF rhs.kind = "raise" THEN "raise"
            ELSE IF rhs.kind = "none" THEN "false"
            ELSE IF ApplyOperator(shape.operator, update.ltp, rhs.v) THEN "true"
            ELSE "false"
    IN IF shape.rhs_type = "constant" THEN Result(get_constant_value(shape))
       ELSE IF shape.rhs_type = "trend_line"
       THEN IF Len(shape.trend_line) # 2 THEN "false"
            ELSE Result(interpolate_trendline(shape.trend_line[1], shape.trend_line[2],
                                              update.ltt))
       ELSE "false"

----------------------------------------------------------------------------
(* AlertStore and the change feed (src/modules/alerts/store.py)             *)

\* fetch_active_alerts: the rows with is_active = True (store.py:30)
fetch_active_alerts(st) == {id \in DOMAIN st : st[id].is_active}

\* AlertStore._handle_insert / _handle_update: the handler task a change-feed
\* payload creates (asyncio.create_task)
FeedTask(event, id, row) ==
    IF event = "INSERT" THEN [kind |-> "insert", alert |-> Alert(id, row)]
    ELSE IF row.deleted \/ ~row.is_active THEN [kind |-> "delete", alert |-> Alert(id, row)]
    ELSE [kind |-> "update", alert |-> Alert(id, row)]

Listening == phase \in {"listening", "streaming"}

\* The feed after the store emitted `event` for row `id`
Emit(event, id, row) ==
    IF Listening THEN Append(feed, FeedTask(event, id, row)) ELSE feed

IdleTick == [pc |-> "idle", update |-> <<>>, snap |-> <<>>, alert |-> <<>>]
\* _on_price_tick left by an exception while it handled `update`
RaisedTick(update) == [pc |-> "raised", update |-> <<update>>, snap |-> <<>>, alert |-> <<>>]

----------------------------------------------------------------------------
(* AlertEngine (src/modules/alerts/engine.py) over TradingViewProvider      *)

\* TradingViewProvider.subscribe / unsubscribe: add_tickers([symbol]) and
\* remove_tickers([symbol]) on a Scaler of 4 x 1000 slots, seen through the keys
\* of ticker_to_node
ProviderSubscribe(subs, symbol) == subs \cup {symbol}
ProviderUnsubscribe(subs, symbol) == subs \ {symbol}

RECURSIVE SyncAlerts(_, _, _, _)
\* _sync_existing_alerts: add_alert and subscribe for each fetched alert
SyncAlerts(order, st, m, subs) ==
    IF order = <<>> THEN [m |-> m, subs |-> subs]
    ELSE LET a == Alert(Head(order), st[Head(order)]) IN
         SyncAlerts(Tail(order), st, add_alert(m, a), ProviderSubscribe(subs, a.symbol))

\* The orders in which the store may return a set of rows
Orders(S) == {o \in [1..Cardinality(S) -> S] : \A i, j \in DOMAIN o : i # j => o[i] # o[j]}

EngineSync ==
    /\ phase = "init"
    /\ \E order \in Orders(fetch_active_alerts(store)) :
          LET r == SyncAlerts(order, store, alerts_by_symbol, subscribed) IN
          /\ alerts_by_symbol' = r.m
          /\ subscribed' = r.subs
    /\ phase' = "synced"
    /\ UNCHANGED <<store, feed, tick, enqueued, marks>>
    /\ UNCHANGED <<dispVars, scalerVars, eventVars, otherVars>>

EngineSubscribeChanges ==
    /\ phase = "synced"
    /\ phase' = "listening"
    /\ UNCHANGED <<store, alerts_by_symbol, subscribed, feed, tick, enqueued, marks>>
    /\ UNCHANGED <<dispVars, scalerVars, eventVars, otherVars>>

EngineProviderStart ==
    /\ phase = "listening"
    /\ phase' = "streaming"
    /\ UNCHANGED <<store, alerts_by_symbol, subscribed, feed, tick, enqueued, marks>>
    /\ UNCHANGED <<dispVars, scalerVars, eventVars, otherVars>>

\* A client creates an alert: a new live row
InsertRow ==
    /\ phase # "crashed"
    /\ Len(feed) < MaxFeed
    /\ \E id \in Ids \ DOMAIN store, row \in Rows :
          /\ LiveRow(row)
          /\ store' = (id :> row) @@ store
          /\ feed' = Emit("INSERT", id, row)
    /\ UNCHANGED <<alerts_by_symbol, subscribed, phase, tick, enqueued, marks>>
    /\ UNCHANGED <<dispVars, scalerVars, eventVars, otherVars>>

\* A client edits, deactivates, soft-deletes or re-activates an alert
UpdateRow ==
    /\ phase # "crashed"
    /\ Len(feed) < MaxFeed
    /\ \E id \in DOMAIN store, row \in Rows :
          /\ row # store[id]
          /\ row.shape = store[id].shape
          /\ store' = [store EXCEPT ![id] = row]
          /\ feed' = Emit("UPDATE", id, row)
    /\ UNCHANGED <<alerts_by_symbol, subscribed, phase, tick, enqueued, marks>>
    /\ UNCHANGED <<dispVars, scalerVars, eventVars, otherVars>>

\* _handle_insert
HandleInsert(alert) ==
    /\ alerts_by_symbol' = add_alert(alerts_by_symbol, alert)
    /\ subscribed' = ProviderSubscribe(subscribed, alert.symbol)

\* _handle_update
HandleUpdate(alert) ==
    /\ alerts_by_symbol' = update_alert(alerts_by_symbol, alert)
    /\ subscribed' = ProviderSubscribe(subscribed, alert.symbol)

\* _handle_delete
HandleDelete(alert) ==
    LET r == remove_alert_by_id(alerts_by_symbol, alert.id) IN
    /\ alerts_by_symbol' = r.m
    /\ subscribed' =
          IF r.removed # <<>> /\ ~has_alerts_for_symbol(r.m, r.removed[1].symbol)
          THEN ProviderUnsubscribe(subscribed, r.removed[1].symbol)
          ELSE subscribed

\* The event loop runs the oldest handler task
RunHandler ==
    /\ phase # "crashed"
    /\ feed # <<>>
    /\ LET t == Head(feed) IN
          CASE t.kind = "insert" -> HandleInsert(t.alert)
            [] t.kind = "update" -> HandleUpdate(t.alert)
            [] t.kind = "delete" -> HandleDelete(t.alert)
    /\ feed' = Tail(feed)
    /\ UNCHANGED <<store, phase, tick, enqueued, marks>>
    /\ UNCHANGED <<dispVars, scalerVars, eventVars, otherVars>>

RECURSIVE TickLoop(_, _)
\* The for loop of _on_price_tick from the snapshot position on, up to the next
\* suspension: the alert whose trigger awaits the store, an exception, or the end
TickLoop(snap, update) ==
    IF snap = <<>> THEN [outcome |-> "end", alert |-> <<>>, rest |-> <<>>]
    ELSE LET r == evaluate_alert(Head(snap), update) IN
         IF r = "raise" THEN [outcome |-> "raise", alert |-> <<>>, rest |-> <<>>]
         ELSE IF r = "true"
         THEN [outcome |-> "await", alert |-> <<Head(snap)>>, rest |-> Tail(snap)]
         ELSE TickLoop(Tail(snap), update)

\* _on_price_tick continued with manager m and store/feed as given
TickContinue(m, update, snap) ==
    LET r == TickLoop(snap, update) IN
    /\ alerts_by_symbol' = m
    /\ CASE r.outcome = "raise" ->
              \* the exception leaves provider.start, engine.start and the worker
              /\ phase' = "crashed"
              /\ tick' = RaisedTick(update)
              /\ UNCHANGED <<subscribed, enqueued>>
         [] r.outcome = "await" ->
              \* dispatcher.enqueue, then suspended in store.mark_alert_triggered
              /\ enqueued' = Append(enqueued, r.alert[1].id)
              /\ tick' = [pc |-> "mark", update |-> <<update>>, snap |-> r.rest,
                          alert |-> r.alert]
              /\ UNCHANGED <<subscribed, phase>>
         [] r.outcome = "end" ->
              /\ subscribed' = IF has_alerts_for_symbol(m, update.symbol)
                               THEN subscribed
                               ELSE ProviderUnsubscribe(subscribed, update.symbol)
              /\ tick' = IdleTick
              /\ UNCHANGED <<phase, enqueued>>

\* _on_price_tick: called for one quote event at a time (provider.py:51-55), it
\* runs from its start, or from the store write it awaits, to its next suspension
OnPriceTick ==
    /\ phase = "streaming"
    /\ UNCHANGED <<dispVars, scalerVars, eventVars, otherVars>>
    /\ IF tick.pc = "idle"
       THEN \E update \in Updates :
               /\ update.symbol \in subscribed
               /\ IF get_alerts_for_symbol(alerts_by_symbol, update.symbol) = <<>>
                  THEN UNCHANGED <<alerts_by_symbol, subscribed, phase, tick, enqueued>>
                  ELSE TickContinue(alerts_by_symbol, update,
                                    get_alerts_for_symbol(alerts_by_symbol, update.symbol))
               /\ UNCHANGED <<store, feed, marks>>
       ELSE \E ok \in BOOLEAN :
               LET alert == tick.alert[1]
                   update == tick.update[1]
               IN IF ok
                  THEN LET row == [store[alert.id] EXCEPT !.is_active = FALSE] IN
                       /\ Len(feed) < MaxFeed
                       /\ marks' = marks \cup {<<alert.id, update.ltp>>}
                       /\ store' = [store EXCEPT ![alert.id] = row]
                       /\ feed' = IF row # store[alert.id]
                                  THEN Emit("UPDATE", alert.id, row) ELSE feed
                       /\ TickContinue(remove_alert(alerts_by_symbol, alert), update,
                                       tick.snap)
                  ELSE \* the write raises: nothing catches it in _on_price_tick
                       /\ phase' = "crashed"
                       /\ tick' = RaisedTick(update)
                       /\ UNCHANGED <<store, alerts_by_symbol, subscribed, feed,
                                      enqueued, marks>>

InitEngine ==
    /\ store \in UNION {[S -> Rows] : S \in SUBSET Ids}
    /\ alerts_by_symbol = <<>>
    /\ subscribed = {}
    /\ phase = "init"
    /\ feed = <<>>
    /\ tick = IdleTick
    /\ enqueued = <<>>
    /\ marks = {}

NextEngine ==
    \/ EngineSync
    \/ EngineSubscribeChanges
    \/ EngineProviderStart
    \/ InsertRow
    \/ UpdateRow
    \/ RunHandler
    \/ OnPriceTick

----------------------------------------------------------------------------
(* NotificationDispatcher (src/modules/alerts/dispatcher_queue.py)          *)

MaxEnqueued == 2    \* alerts enqueued over a run
MaxHandlers == 2    \* handlers registered, the built-in webhook included
ExtraHandlers == {"h1", "h2"}

\* Faulty variants of the two definitions below, against which the dispatcher
\* properties are tried: a loop that stops after the first handler, and a loop
\* without the try/except
OnlyFirstHandler(hs, i) == i < 1
OutcomeWithoutExcept(outcome) == [continue |-> outcome = "ok", res |-> outcome]

\* for handler in self.handlers: the iterator looks at the list as it is when
\* the loop asks for its next element
HasNextHandler(hs, i) == i < Len(hs)

\* await handler(alert): the handler runs up to its first suspension
InvokeHandler(log, k, i, hs) ==
    Append(log, [k |-> k, i |-> i, handler |-> hs[i], res |-> "pending"])

\* try/except Exception around the await (dispatcher_queue.py:27-30): the
\* outcome is recorded and the for loop goes on whichever it is
HandlerOutcome(outcome) == [continue |-> TRUE, res |-> outcome]

\* dispatch_loop from `await self.queue.get()` on, with queue q and log lg: it
\* takes the oldest alert and invokes the first handler, or waits in get
DispatchFrom(q, lg) ==
    IF q = <<>>
    THEN /\ dloop' = [pc |-> "get", k |-> 0, i |-> 0]
         /\ queue' = q
         /\ callLog' = lg
    ELSE /\ queue' = Tail(q)
         /\ IF HasNextHandler(handlers, 0)
            THEN /\ callLog' = InvokeHandler(lg, Head(q).k, 1, handlers)
                 /\ dloop' = [pc |-> "await", k |-> Head(q).k, i |-> 1]
            ELSE /\ callLog' = lg
                 /\ dloop' = [pc |-> "get", k |-> 0, i |-> 0]

\* register_handler
RegisterHandler ==
    /\ Len(handlers) < MaxHandlers
    /\ \E h \in ExtraHandlers : handlers' = Append(handlers, h)
    /\ UNCHANGED <<queue, dloop, enqLog, callLog>>
    /\ UNCHANGED <<engineVars, scalerVars, eventVars, otherVars>>

\* enqueue: queue.put on an unbounded queue does not suspend
Enqueue ==
    /\ Len(enqLog) < MaxEnqueued
    /\ \E id \in Ids :
          /\ enqLog' = Append(enqLog, id)
          /\ queue' = Append(queue, [id |-> id, k |-> Len(enqLog) + 1])
    /\ UNCHANGED <<handlers, dloop, callLog>>
    /\ UNCHANGED <<engineVars, scalerVars, eventVars, otherVars>>

\* dispatch_loop resumes from queue.get() with an alert
DispatchGet ==
    /\ dloop.pc = "get"
    /\ queue # <<>>
    /\ DispatchFrom(queue, callLog)
    /\ UNCHANGED <<handlers, enqLog>>
    /\ UNCHANGED <<engineVars, scalerVars, eventVars, otherVars>>

\* The awaited handler returns ("ok") or raises an Exception ("err");
\* _handle_alert goes on to the next handler, or back to dispatch_loop
HandlerDone ==
    /\ dloop.pc = "await"
    /\ \E outcome \in {"ok", "err"} :
          LET o == HandlerOutcome(outcome)
              lg == [callLog EXCEPT ![Len(callLog)].res = o.res]
          IN IF ~o.continue
             THEN \* the exception leaves _handle_alert and ends the dispatch task
                  /\ dloop' = [pc |-> "dead", k |-> dloop.k, i |-> dloop.i]
                  /\ callLog' = lg
                  /\ UNCHANGED queue
             ELSE IF HasNextHandler(handlers, dloop.i)
             THEN /\ callLog' = InvokeHandler(lg, dloop.k, dloop.i + 1, handlers)
                  /\ dloop' = [dloop EXCEPT !.i = dloop.i + 1]
                  /\ UNCHANGED queue
             ELSE DispatchFrom(queue, lg)
    /\ UNCHANGED <<handlers, enqLog>>
    /\ UNCHANGED <<engineVars, scalerVars, eventVars, otherVars>>

InitDispatcher ==
    /\ queue = <<>>
    /\ handlers = <<"webhook">>
    /\ dloop = [pc |-> "get", k |-> 0, i |-> 0]
    /\ enqLog = <<>>
    /\ callLog = <<>>

NextDispatcher ==
    \/ RegisterHandler
    \/ Enqueue
    \/ DispatchGet
    \/ HandlerDone

----------------------------------------------------------------------------
(* TradingViewScaler (src/shared/provider/tradingview/quote_scaler.py)      *)
(* Node "node_<k>" is the number k.  A Python dict is a sequence of entries *)
(* in insertion order where the code iterates it, a function otherwise.     *)

Tickers == {"a", "b", "c"}
max_connections == 2              \* constructor argument, as in scenario S3
max_tickers_per_connection == 2   \* constructor argument
MaxList  == 3       \* longest ticker list passed to add_tickers / remove_tickers
MaxCalls == 2       \* add_tickers / remove_tickers calls in progress at one time
MaxFewList == 2     \* longest ticker list passed by concurrent callers
MaxOrphans == 1     \* running _run_node tasks that nothing refers to any more

\* Lists of distinct tickers
ListsOver(T, len) ==
    UNION {{l \in [1..n -> T] : \A i, j \in 1..n : i # j => l[i] # l[j]} : n \in 1..len}
TickerLists == ListsOver(Tickers, MaxList)
\* Arguments of the calls made by concurrent callers
FewTickers == {"a", "b"}
FewTickerLists == ListsOver(FewTickers, MaxFewList)

\* dict without key k
Without(f, k) == [x \in DOMAIN f \ {k} |-> f[x]]
\* dict with f[k] = v
With(f, k, v) == (k :> v) @@ f

NodeIndex(ns, n) ==
    IF \E i \in DOMAIN ns : ns[i].id = n
    THEN CHOOSE i \in DOMAIN ns : ns[i].id = n
    ELSE 0
NodeIds(ns) == {ns[i].id : i \in DOMAIN ns}
NodeTickers(ns, n) == ns[NodeIndex(ns, n)].tickers

\* node_assignments[key] = val on an insertion-ordered dict
AssignSet(acc, key, val) ==
    IF \E i \in DOMAIN acc : acc[i].node = key
    THEN [i \in DOMAIN acc |-> IF acc[i].node = key THEN [node |-> key, list |-> val]
                               ELSE acc[i]]
    ELSE Append(acc, [node |-> key, list |-> val])

RECURSIVE FillExisting(_, _, _)
\* add_tickers, first loop (lines 65-71): the free slots of the existing nodes
FillExisting(ns, unassigned, acc) ==
    IF ns = <<>> THEN [unassigned |-> unassigned, acc |-> acc]
    ELSE LET capacity == max_tickers_per_connection - Cardinality(Head(ns).tickers)
             to_add == Take(unassigned, capacity)
         IN IF capacity > 0
            THEN IF to_add # <<>>
                 THEN FillExisting(Tail(ns), Drop(unassigned, capacity),
                                   Append(acc, [node |-> Head(ns).id, list |-> to_add]))
                 ELSE FillExisting(Tail(ns), unassigned, acc)
            ELSE FillExisting(Tail(ns), unassigned, acc)

\* node_id = f"node_{len(self.nodes) + 1}" (line 74)
NewNodeId(count) == count + 1

RECURSIVE CreateNodes(_, _, _)
\* add_tickers, while loop (lines 73-77): self.nodes does not change in it
CreateNodes(count, unassigned, acc) ==
    IF unassigned # <<>> /\ count < max_connections
    THEN CreateNodes(count, Drop(unassigned, max_tickers_per_connection),
                     AssignSet(acc, NewNodeId(count),
                               Take(unassigned, max_tickers_per_connection)))
    ELSE [unassigned |-> unassigned, acc |-> acc]

\* node_assignments of add_tickers for the new tickers
NodeAssignments(ns, new_tickers) ==
    LET p1 == FillExisting(ns, new_tickers, <<>>)
    IN CreateNodes(Len(ns), p1.unassigned, p1.acc).acc

RECURSIVE ApplyAssignments(_, _, _)
\* add_tickers, lines 79-83: gives the new nodes and ticker_to_node
ApplyAssignments(acc, ns, ttn) ==
    IF acc = <<>> THEN [nodes |-> ns, ticker_to_node |-> ttn]
    ELSE LET n == Head(acc).node
             assigned == Range(Head(acc).list)
             ns1 == IF NodeIndex(ns, n) = 0
                    THEN Append(ns, [id |-> n, tickers |-> {}]) ELSE ns
             ns2 == [ns1 EXCEPT ![NodeIndex(ns1, n)].tickers = @ \cup assigned]
             ttn1 == [t \in DOMAIN ttn \cup assigned |->
                         IF t \in assigned THEN n ELSE ttn[t]]
         IN ApplyAssignments(Tail(acc), ns2, ttn1)

\* new_tickers = [t for t in tickers if t not in self.ticker_to_node]
NewTickers(list, ttn) == SelectSeq(list, LAMBDA t : t \notin DOMAIN ttn)

----------------------------------------------------------------------------
(* Scaler state as one record, so that a call can be run to its next         *)
(* suspension by ordinary operators.  An asyncio.Task of _run_node is a      *)
(* record held by whoever refers to it: node_tasks, the call awaiting it in  *)
(* asyncio.gather, or only the event loop (orphans).                         *)

\* asyncio.create_task(self._run_node(node_id, list(node.tickers), event_queue))
NewTask(n, tickerSet) ==
    [state |-> "created", node |-> n, tickers |-> tickerSet, cancel |-> "",
     streamer |-> FALSE]
\* A finished task: CancelledError or the end of the stream, then the finally
\* blocks of _run_node and stream_quotes
DoneTask(r) ==
    [state |-> "done", node |-> r.node, tickers |-> {}, cancel |-> "",
     streamer |-> FALSE]

\* by is the caller: the id of the alert whose change-feed handler makes the
\* call, "" for any other caller
IdleCall == [op |-> "idle", pc |-> "", sends |-> <<>>, todo |-> <<>>, node |-> 0,
             task |-> <<>>, held |-> <<>>, by |-> ""]

Scaler == [nodes |-> nodes, ticker_to_node |-> ticker_to_node, node_tasks |-> node_tasks,
           node_streamers |-> node_streamers, event_queues |-> event_queues,
           quotes |-> quotes, running |-> running, orphans |-> orphans,
           calls |-> calls, overflow |-> FALSE]

\* The contents of the queues of _event_queues after a step of the Scaler: a
\* queue made with a task (lines 124-127) is empty, a queue popped (line 115)
\* or cleared (line 53) is gone, any other keeps what it holds
QueuesAfter(S) ==
    [n \in S.event_queues |->
        IF n \in DOMAIN S.node_tasks /\ S.node_tasks[n].state = "created" THEN <<>>
        ELSE IF n \in DOMAIN qitems THEN qitems[n] ELSE <<>>]

ScalerBecomes(S) ==
    /\ ~S.overflow
    /\ qitems' = QueuesAfter(S)
    /\ nodes' = S.nodes
    /\ ticker_to_node' = S.ticker_to_node
    /\ node_tasks' = S.node_tasks
    /\ node_streamers' = S.node_streamers
    /\ event_queues' = S.event_queues
    /\ quotes' = S.quotes
    /\ running' = S.running
    /\ orphans' = S.orphans
    /\ calls' = S.calls

SetScaler(S) ==
    /\ ScalerBecomes(S)
    /\ UNCHANGED <<engineVars, dispVars, laterVars, otherVars>>

\* Every task there is, with the place that holds it
TaskLocs(S) ==
    {[kind |-> "node", at |-> n, task |-> S.node_tasks[n]] : n \in DOMAIN S.node_tasks}
    \cup {[kind |-> "call", at |-> k, task |-> S.calls[k].task[1]] :
             k \in {j \in DOMAIN S.calls : S.calls[j].task # <<>>}}
    \cup {[kind |-> "orphan", at |-> 0, task |-> r] : r \in S.orphans}

PutTask(S, loc, r) ==
    CASE loc.kind = "node" -> [S EXCEPT !.node_tasks[loc.at] = r]
      [] loc.kind = "call" -> [S EXCEPT !.calls[loc.at].task = <<r>>]
      [] OTHER -> [S EXCEPT !.orphans = (@ \ {loc.task}) \cup {r}]

\* The streamers of the tasks of node n are no longer the value of
\* node_streamers[n]
Unregister(S, n) ==
    LET f(r) == IF r.node = n THEN [r EXCEPT !.streamer = FALSE] ELSE r
    IN [S EXCEPT !.node_tasks = [m \in DOMAIN @ |-> f(@[m])],
                 !.calls = [k \in DOMAIN @ |->
                               [@[k] EXCEPT !.task = IF @ = <<>> THEN <<>> ELSE <<f(@[1])>>]],
                 !.orphans = {f(r) : r \in @}]

\* task.cancel(): the request is noted with the operation that made it; the
\* task ends when the event loop next runs it
CancelTask(t, by) ==
    IF t.state = "done" THEN t ELSE [t EXCEPT !.cancel = by]

\* _update_nodes, lines 114-116, for a node found missing or empty
Teardown(S, n, me) ==
    LET i == NodeIndex(S.nodes, n)
        \* a call suspended in the restart of this node keeps the node object
        detach(c) == IF c.pc = "restart_wait" /\ c.node = n /\ c.held = <<>> /\ i # 0
                     THEN [c EXCEPT !.held = <<S.nodes[i].tickers>>] ELSE c
        U == Unregister(S, n)
    IN [U EXCEPT !.node_streamers = Without(@, n),
                 !.event_queues = @ \ {n},
                 !.nodes = IF i = 0 THEN @ ELSE RemoveAt(@, i),
                 !.calls = [k \in DOMAIN @ |-> IF k = me THEN @[k] ELSE detach(@[k])]]

\* _update_nodes, lines 124-127: a fresh queue and a new task for the node.  A
\* running task the entry of node_tasks referred to goes on without a reference.
SpawnNode(S, n, tickerSet) ==
    LET left == IF n \in DOMAIN S.node_tasks /\ S.node_tasks[n].state # "done"
                THEN {S.node_tasks[n]} ELSE {}
        all == S.orphans \cup left
    IN [S EXCEPT !.event_queues = @ \cup {n},
                 !.node_tasks = With(@, n, NewTask(n, tickerSet)),
                 !.orphans = all,
                 !.overflow = @ \/ Cardinality(all) > MaxOrphans]

\* The test of line 109, negated: the node exists and has tickers
NodeHasTickers(n, i, S) == i # 0 /\ S.nodes[i].tickers # {}

RECURSIVE RunUpdateNodes(_, _)
\* _update_nodes from the node at the head of todo on, up to the next await
\* that suspends, or to the end of the call
RunUpdateNodes(S, me) ==
    LET c == S.calls[me] IN
    IF S.overflow THEN S
    ELSE IF c.todo = <<>> THEN [S EXCEPT !.calls[me] = IdleCall]
    ELSE LET n == Head(c.todo)
             i == NodeIndex(S.nodes, n)
             next == [c EXCEPT !.todo = Tail(c.todo)]
             has == n \in DOMAIN S.node_tasks
             task == S.node_tasks[n]
             popped == [S EXCEPT !.node_tasks = Without(@, n)]
         IN IF ~NodeHasTickers(n, i, S)
            THEN IF has /\ task.state # "done"
                 THEN [popped EXCEPT
                          !.calls[me] = [next EXCEPT !.pc = "teardown_wait", !.node = n,
                                                     !.task = <<CancelTask(task, c.op)>>]]
                 ELSE RunUpdateNodes(
                          Teardown([(IF has THEN popped ELSE S) EXCEPT !.calls[me] = next],
                                   n, me), me)
            ELSE IF has
                 THEN [popped EXCEPT
                          !.calls[me] = [next EXCEPT !.pc = "restart_wait", !.node = n,
                                                     !.task = <<CancelTask(task, c.op)>>]]
                 ELSE RunUpdateNodes(
                          [SpawnNode(S, n, S.nodes[i].tickers) EXCEPT !.calls[me] = next],
                          me)

\* streamer.remove_symbols (quote_streamer.py:100-108) sends only on a streamer
\* that has a session and a socket
CanSend(S, n) == n \in DOMAIN S.node_streamers /\ S.node_streamers[n]

RECURSIVE RunSends(_, _)
\* remove_tickers, lines 99-104, from the node at the head of sends on
RunSends(S, me) ==
    LET c == S.calls[me] IN
    IF c.sends = <<>> THEN RunUpdateNodes(S, me)
    ELSE LET n == Head(c.sends).node
             next == [c EXCEPT !.sends = Tail(c.sends)]
         IN IF CanSend(S, n)
            THEN [S EXCEPT !.calls[me] = [next EXCEPT !.pc = "send"]]
            ELSE RunSends([S EXCEPT !.calls[me] = next], me)

RECURSIVE PopTickers(_, _)
\* remove_tickers, lines 91-97; r holds nodes, ticker_to_node, quotes and the
\* node_ticker_map built so far
PopTickers(list, r) ==
    IF list = <<>> THEN r
    ELSE LET t == Head(list)
             known == t \in DOMAIN r.ticker_to_node
             n == r.ticker_to_node[t]
             i == NodeIndex(r.nodes, n)
             j == CHOOSE j \in DOMAIN r.map : r.map[j].node = n
         IN IF ~known THEN PopTickers(Tail(list), r)
            ELSE IF i = 0
            THEN PopTickers(Tail(list),
                            [r EXCEPT !.ticker_to_node = Without(@, t)])
            ELSE PopTickers(Tail(list),
                    [r EXCEPT !.ticker_to_node = Without(@, t),
                              !.nodes[i].tickers = @ \ {t},
                              !.quotes = @ \ {t},
                              !.map = IF \E k \in DOMAIN @ : @[k].node = n
                                      THEN [@ EXCEPT ![j].list = Append(@, t)]
                                      ELSE Append(@, [node |-> n, list |-> <<t>>])])

IdleSlots == {k \in DOMAIN calls : calls[k].op = "idle"}
FirstIdle == CHOOSE k \in IdleSlots : \A j \in IdleSlots : k <= j

\* add_tickers(list) called by `by`, run to its first suspension: the states
\* the Scaler may be in then, one for each order in which the set of the
\* assigned nodes is iterated
add_tickers(list, by) ==
    LET new_tickers == NewTickers(list, ticker_to_node)
        acc == NodeAssignments(nodes, new_tickers)
        applied == ApplyAssignments(acc, nodes, ticker_to_node)
        started == [Scaler EXCEPT !.running = TRUE]
    IN IF IdleSlots = {} THEN {}
       ELSE IF new_tickers = <<>> THEN {started}
       ELSE {RunUpdateNodes(
                 [started EXCEPT !.nodes = applied.nodes,
                                 !.ticker_to_node = applied.ticker_to_node,
                                 !.calls[FirstIdle] =
                                     [IdleCall EXCEPT !.op = "add", !.todo = order,
                                                      !.by = by]],
                 FirstIdle) : order \in Orders({acc[i].node : i \in DOMAIN acc})}

\* remove_tickers(list) called by `by`, run to its first suspension
remove_tickers(list, by) ==
    LET r == PopTickers(list, [nodes |-> nodes, ticker_to_node |-> ticker_to_node,
                               quotes |-> quotes, map |-> <<>>])
    IN IF IdleSlots = {} THEN {}
       ELSE {RunSends(
                 [Scaler EXCEPT !.nodes = r.nodes,
                                !.ticker_to_node = r.ticker_to_node,
                                !.quotes = r.quotes,
                                !.calls[FirstIdle] =
                                    [IdleCall EXCEPT !.op = "remove", !.sends = r.map,
                                                     !.todo = order, !.by = by]],
                 FirstIdle) : order \in Orders({r.map[i].node : i \in DOMAIN r.map})}

\* A call of the Scaler's caller, with the rest of the system left alone
AddTickers(list) == \E S \in add_tickers(list, "") : SetScaler(S)
RemoveTickers(list) == \E S \in remove_tickers(list, "") : SetScaler(S)

\* A suspended call goes on: after the send of remove_symbols, or after the
\* task it cancelled has finished (asyncio.gather)
ResumeCall(k) ==
    LET c == calls[k]
        woken == [Scaler EXCEPT !.calls[k] = [c EXCEPT !.pc = "", !.task = <<>>,
                                                       !.held = <<>>]]
        i == NodeIndex(nodes, c.node)
    IN /\ c.op # "idle"
       /\ CASE c.pc = "send" -> SetScaler(RunSends(woken, k))
            [] c.pc = "teardown_wait" ->
                 /\ c.task[1].state = "done"
                 /\ SetScaler(RunUpdateNodes(Teardown(woken, c.node, k), k))
            [] c.pc = "restart_wait" ->
                 /\ c.task[1].state = "done"
                 /\ SetScaler(RunUpdateNodes(
                        SpawnNode(woken, c.node,
                                  IF c.held # <<>> THEN c.held[1]
                                  ELSE IF i = 0 THEN {} ELSE nodes[i].tickers), k))

\* A task comes to its end: the socket of its streamer is closed, and a task
\* nothing refers to is gone
Finish(S, loc) ==
    LET r == loc.task
        closed == IF r.streamer THEN [S EXCEPT !.node_streamers[r.node] = FALSE] ELSE S
    IN IF loc.kind = "orphan" THEN [closed EXCEPT !.orphans = @ \ {r}]
       ELSE PutTask(closed, loc, DoneTask(r))

\* _run_node starts: it makes its streamer and registers it (lines 131-132);
\* the streamer connects and initialises its session
TaskStart(loc) ==
    LET r == loc.task IN
    /\ r.state = "created" /\ r.cancel = ""
    /\ SetScaler([PutTask(Unregister(Scaler, r.node), loc,
                          [r EXCEPT !.state = "streaming", !.streamer = TRUE])
                     EXCEPT !.node_streamers = With(@, r.node, TRUE)])

\* A QUOTE_UPDATE of the stream is stored (lines 140-141)
StreamEvent(loc) ==
    /\ loc.task.state = "streaming" /\ loc.task.cancel = ""
    /\ running
    /\ \E t \in loc.task.tickers \ quotes :
          SetScaler([Scaler EXCEPT !.quotes = @ \cup {t}])

\* The stream ends by itself (closed, or out of reconnect attempts)
TaskEnds(loc) ==
    /\ loc.task.state = "streaming" /\ loc.task.cancel = ""
    /\ SetScaler(Finish(Scaler, loc))

\* A cancelled task finishes (CancelledError in _run_node)
TaskCancelled(loc) ==
    /\ loc.task.state \in {"created", "streaming"}
    /\ loc.task.cancel # ""
    /\ SetScaler(Finish(Scaler, loc))

\* No event put, no stop() called, no quote_events() consumer started
EventsAtRest ==
    /\ qitems = <<>>
    /\ produced = 0
    /\ stopcall = "idle"
    /\ consumer = [pc |-> "none", ready |-> <<>>]
    /\ yielded = <<>>

InitNodes ==
    /\ EventsAtRest
    /\ nodes = <<>>
    /\ ticker_to_node = <<>>
    /\ node_tasks = <<>>
    /\ node_streamers = <<>>
    /\ event_queues = {}
    /\ quotes = {}
    /\ running = FALSE
    /\ orphans = {}

\* One caller: every call returns before the next is made
InitScaler == InitNodes /\ calls = <<IdleCall>>

\* Callers in several tasks, as the handlers of the alert change feed are
InitScalerConcurrent == InitNodes /\ calls = [k \in 1..MaxCalls |-> IdleCall]

NextScaler ==
    \/ \E list \in TickerLists : AddTickers(list)
    \/ \E list \in TickerLists : RemoveTickers(list)
    \/ \E k \in DOMAIN calls : ResumeCall(k)
    \/ \E loc \in TaskLocs(Scaler) : TaskStart(loc)
    \/ \E loc \in TaskLocs(Scaler) : StreamEvent(loc)
    \/ \E loc \in TaskLocs(Scaler) : TaskEnds(loc)
    \/ \E loc \in TaskLocs(Scaler) : TaskCancelled(loc)

NextScalerConcurrent ==
    \/ \E list \in FewTickerLists : AddTickers(list)
    \/ \E list \in FewTickerLists : RemoveTickers(list)
    \/ \E k \in DOMAIN calls : ResumeCall(k)
    \/ \E loc \in TaskLocs(Scaler) : TaskStart(loc)
    \/ \E loc \in TaskLocs(Scaler) : TaskCancelled(loc)

----------------------------------------------------------------------------
(* The change-feed handlers of the AlertEngine (engine.py:60-74) as tasks    *)
(* over the Scaler of TradingViewProvider (provider.py:43-47).  A payload of *)
(* the feed creates a task (store.py:58, 73, 76); the event loop starts the  *)
(* tasks in the order of their creation, and a task runs to the first await  *)
(* that suspends it, inside add_tickers or remove_tickers.  subscribed       *)
(* holds the symbols subscribed had every handler run to its end before the  *)
(* next started.                                                             *)

\* A handler task starts: the Alert Manager is changed and the provider is
\* called, up to the first suspension of the call
HandlerTask ==
    /\ Listening
    /\ feed # <<>>
    /\ LET t == Head(feed)
           r == remove_alert_by_id(alerts_by_symbol, t.alert.id)
       IN CASE t.kind = "insert" ->
                 /\ HandleInsert(t.alert)
                 /\ \E S \in add_tickers(<<t.alert.symbol>>, t.alert.id) : ScalerBecomes(S)
            [] t.kind = "update" ->
                 /\ HandleUpdate(t.alert)
                 /\ \E S \in add_tickers(<<t.alert.symbol>>, t.alert.id) : ScalerBecomes(S)
            [] t.kind = "delete" ->
                 /\ HandleDelete(t.alert)
                 /\ IF r.removed # <<>> /\ ~has_alerts_for_symbol(r.m, r.removed[1].symbol)
                    THEN \E S \in remove_tickers(<<r.removed[1].symbol>>, t.alert.id) :
                            ScalerBecomes(S)
                    ELSE ScalerBecomes(Scaler)
    /\ feed' = Tail(feed)
    /\ UNCHANGED <<store, phase, tick, enqueued, marks>>
    /\ UNCHANGED <<dispVars, laterVars, otherVars>>

\* The rows a client writes here: of one shape and not soft-deleted; an alert
\* is moved from X to Y and is deactivated, and neither is undone
FeedRows ==
    \A id \in DOMAIN store' :
        /\ store'[id].shape = ConstantGT100
        /\ ~store'[id].deleted
        /\ id \in DOMAIN store =>
              /\ store[id].symbol = "Y" => store'[id].symbol = "Y"
              /\ ~store[id].is_active => ~store'[id].is_active

NextFeedHandlers ==
    \/ EngineSync
    \/ EngineSubscribeChanges
    \/ Listening /\ InsertRow /\ FeedRows
    \/ Listening /\ UpdateRow /\ FeedRows
    \/ HandlerTask
    \/ \E k \in DOMAIN calls : ResumeCall(k)
    \/ \E loc \in TaskLocs(Scaler) : TaskStart(loc)
    \/ \E loc \in TaskLocs(Scaler) : TaskCancelled(loc)

----------------------------------------------------------------------------
(* The Scaler's events: what _run_node puts on the queue of its node, what   *)
(* quote_events() takes from the queues and yields, and stop().              *)

MaxEvents == 3      \* events put by all node tasks over a run
MaxStopEvents == 1  \* the same, in the runs that follow stop() to its end
EventKinds == {"quote_update"}
\* Arguments of add_tickers and remove_tickers while events flow: two tickers
\* that fill a node, and one that needs a second node
EventTickerLists == {<<"a", "b">>, <<"c">>}

\* A get() that takes the newest item of the queue instead of the oldest
GetNewest(q) == [item |-> q[Len(q)], rest |-> SubSeq(q, 1, Len(q) - 1)]

\* q.get() on a queue that is not empty (line 153): the oldest item
QueueGet(q) == [item |-> Head(q), rest |-> Tail(q)]

\* _run_node, lines 136-141, for one event of the stream: the event is put on
\* the queue the task was made with, and a QUOTE_UPDATE is stored.  The queue
\* of a task that node_tasks does not refer to is in no dict any more.
NodePut(loc) ==
    LET r == loc.task
        n == r.node
    IN /\ r.state = "streaming" /\ r.cancel = ""
       /\ running
       /\ produced < MaxEvents
       /\ \E t \in r.tickers, kind \in EventKinds :
             LET e == [kind |-> kind, ticker |-> t, seq |-> produced + 1]
             IN /\ qitems' = IF loc.kind = "node" /\ n \in DOMAIN qitems
                             THEN [qitems EXCEPT ![n] = Append(@, e)]
                             ELSE qitems
                /\ quotes' = IF kind = "quote_update" THEN quotes \cup {t} ELSE quotes
       /\ produced' = produced + 1
       /\ UNCHANGED <<nodes, ticker_to_node, node_tasks, node_streamers, event_queues,
                      running, orphans, calls, stopcall, consumer, yielded>>
       /\ UNCHANGED <<engineVars, dispVars, otherVars>>

\* stop() on a running Scaler, lines 44-48, up to the await of asyncio.gather
Stop ==
    /\ running
    /\ stopcall = "idle"
    /\ IdleSlots = DOMAIN calls
    /\ running' = FALSE
    /\ node_tasks' = [n \in DOMAIN node_tasks |-> CancelTask(node_tasks[n], "stop")]
    /\ stopcall' = "gather"
    /\ UNCHANGED <<nodes, ticker_to_node, node_streamers, event_queues, quotes,
                   orphans, calls, qitems, produced, consumer, yielded>>
    /\ UNCHANGED <<engineVars, dispVars, otherVars>>

\* A gather that returns without waiting for the tasks
GatherNoWait(tasks) == TRUE

\* await asyncio.gather(*self.node_tasks.values(), return_exceptions=True)
\* returns when every task has finished (line 48)
GatherDone(tasks) == \A n \in DOMAIN tasks : tasks[n].state = "done"

\* stop(), lines 49-54: gather has returned, every task awaited has finished
StopResume ==
    /\ stopcall = "gather"
    /\ GatherDone(node_tasks)
    /\ nodes' = <<>>
    /\ node_tasks' = <<>>
    /\ node_streamers' = <<>>
    /\ ticker_to_node' = <<>>
    /\ event_queues' = {}
    /\ qitems' = <<>>
    /\ stopcall' = "idle"
    /\ UNCHANGED <<quotes, running, orphans, calls, produced, consumer, yielded>>
    /\ UNCHANGED <<engineVars, dispVars, otherVars>>

\* A consumer starts to iterate quote_events()
ConsumerStart ==
    /\ consumer.pc = "none"
    /\ consumer' = [pc |-> "loop", ready |-> <<>>]
    /\ UNCHANGED <<scalerVars, qitems, produced, stopcall, yielded>>
    /\ UNCHANGED <<engineVars, dispVars, otherVars>>

\* quote_events(), lines 152-157, at the test of the while loop: it ends when
\* the Scaler does not run; else one get() per queue that is not empty, which
\* asyncio.as_completed runs in the order of a set.  With every queue empty
\* it sleeps and tests again.
ConsumerLoop ==
    LET nonempty == {n \in DOMAIN qitems : qitems[n] # <<>>}
    IN /\ consumer.pc = "loop"
       /\ IF ~running
          THEN /\ consumer' = [pc |-> "ended", ready |-> <<>>]
               /\ UNCHANGED qitems
          ELSE /\ nonempty # {}
               /\ \E order \in Orders(nonempty) :
                     consumer' = [pc |-> "yield",
                                  ready |-> [i \in DOMAIN order |->
                                                QueueGet(qitems[order[i]]).item]]
               /\ qitems' = [n \in DOMAIN qitems |->
                                IF n \in nonempty THEN QueueGet(qitems[n]).rest
                                ELSE qitems[n]]
       /\ UNCHANGED <<scalerVars, produced, stopcall, yielded>>
       /\ UNCHANGED <<engineVars, dispVars, otherVars>>

\* quote_events(), lines 157-159: the next completed get() is yielded
ConsumerYield ==
    /\ consumer.pc = "yield"
    /\ yielded' = Append(yielded, Head(consumer.ready))
    /\ consumer' = IF Tail(consumer.ready) = <<>> THEN [pc |-> "loop", ready |-> <<>>]
                   ELSE [consumer EXCEPT !.ready = Tail(@)]
    /\ UNCHANGED <<scalerVars, qitems, produced, stopcall>>
    /\ UNCHANGED <<engineVars, dispVars, otherVars>>

\* The Scaler with one caller, its node tasks and one quote_events() consumer
NextQuoteEvents ==
    \/ \E list \in EventTickerLists : stopcall = "idle" /\ AddTickers(list)
    \/ \E list \in EventTickerLists : stopcall = "idle" /\ RemoveTickers(list)
    \/ \E k \in DOMAIN calls : ResumeCall(k)
    \/ \E loc \in TaskLocs(Scaler) : TaskStart(loc)
    \/ \E loc \in TaskLocs(Scaler) : NodePut(loc)
    \/ \E loc \in TaskLocs(Scaler) : TaskEnds(loc)
    \/ \E loc \in TaskLocs(Scaler) : TaskCancelled(loc)
    \/ Stop
    \/ StopResume
    \/ ConsumerStart
    \/ ConsumerLoop
    \/ ConsumerYield

\* The same system with fewer events, to follow stop() and the consumer to
\* their ends
NextStop ==
    \/ \E list \in EventTickerLists : stopcall = "idle" /\ AddTickers(list)
    \/ \E list \in EventTickerLists : stopcall = "idle" /\ RemoveTickers(list)
    \/ \E k \in DOMAIN calls : ResumeCall(k)
    \/ \E loc \in TaskLocs(Scaler) : TaskStart(loc)
    \/ \E loc \in TaskLocs(Scaler) : produced < MaxStopEvents /\ NodePut(loc)
    \/ \E loc \in TaskLocs(Scaler) : TaskEnds(loc)
    \/ \E loc \in TaskLocs(Scaler) : TaskCancelled(loc)
    \/ Stop
    \/ StopResume
    \/ ConsumerStart
    \/ ConsumerLoop
    \/ ConsumerYield

----------------------------------------------------------------------------
(* TradingViewQuoteStreamer (quote_streamer.py): one stream_quotes(tickers)  *)
(* generator with its connections, the messages of the wire and              *)
(* remove_symbols.                                                           *)

reconnect_attempts == 2     \* constructor argument (default 3)
MaxMessages == 3            \* messages received over the life of the stream
StreamTickers == <<"a", "b">>       \* the argument of stream_quotes
Fields == {"lp", "ch"}
FieldValues == {1, 2}

\* Messages of the wire: a quote_completed marker, a qsd with one field, or a
\* critical_error / protocol_error
Messages ==
    [m : {"quote_completed"}, ticker : Range(StreamTickers), field : {""}, value : {0}]
    \cup [m : {"qsd"}, ticker : Range(StreamTickers), field : Fields, value : FieldValues]
    \cup [m : {"critical_error", "protocol_error"}, ticker : {""}, field : {""}, value : {0}]

StreamEventOf(type, ticker, data, msg) ==
    [type |-> type, ticker |-> ticker, data |-> data, msg |-> msg,
     conn |-> shist.connects,
     seen |-> IF ticker \in DOMAIN shist.recvd THEN shist.recvd[ticker] ELSE <<>>]

\* A loop that never gives up
AlwaysRetry(attempts) == TRUE
\* An update forwarded whether or not the ticker has completed
ForwardAlways(t, completed) == TRUE

\* while attempts <= self._reconnect_attempts (line 126)
MayConnect(attempts) == attempts <= reconnect_attempts

\* if ticker in self._quote_completed_tickers (line 154)
ForwardUpdate(t, completed) == t \in completed

\* self._quotes.get(ticker, {})
QuoteOf(qs, t) == IF t \in DOMAIN qs THEN qs[t] ELSE <<>>

\* current.update(values) (line 120)
MergeField(q, field, value) == With(q, field, value)

\* The sleeps made so far, with the one of line 128
SleptAfter(attempts) == shist.sleeps + (IF attempts > 0 THEN 1 ELSE 0)

\* stream_quotes, lines 126-140: a connection is made; the set of completed
\* tickers is cleared, CONNECTED is emitted and the session is initialised
\* with the requested tickers
StreamConnect ==
    /\ stream.pc = "loop"
    /\ MayConnect(stream.attempts)
    /\ stream' = [stream EXCEPT !.pc = "connected", !.socket = TRUE,
                                !.completed = {}, !.session = Range(StreamTickers)]
    /\ shist' = [shist EXCEPT !.connects = @ + 1, !.recvd = <<>>,
                              !.sleeps = SleptAfter(stream.attempts),
                              !.emitted = Append(@, [StreamEventOf("connected", "", <<>>, "")
                                                        EXCEPT !.conn = shist.connects + 1,
                                                               !.seen = <<>>])]
    /\ UNCHANGED <<engineVars, dispVars, scalerVars, eventVars, screenVars, pureVars>>

\* stream_quotes, lines 126-136 and 164-168: connect raises
StreamConnectFails ==
    /\ stream.pc = "loop"
    /\ MayConnect(stream.attempts)
    /\ stream' = [stream EXCEPT !.attempts = @ + 1, !.socket = FALSE]
    /\ shist' = [shist EXCEPT !.connects = @ + 1,
                              !.sleeps = SleptAfter(stream.attempts),
                              !.emitted = Append(@, StreamEventOf("error", "", <<>>, "exception"))]
    /\ UNCHANGED <<engineVars, dispVars, scalerVars, eventVars, screenVars, pureVars>>

\* stream_quotes, lines 142-157, with _process_quote_update: one message
StreamMessage(m) ==
    LET t == m.ticker
        merged == MergeField(QuoteOf(stream.quotes, t), m.field, m.value)
        seen == MergeField(QuoteOf(shist.recvd, t), m.field, m.value)
        counted == [shist EXCEPT !.msgs = @ + 1]
    IN /\ stream.pc = "connected"
       /\ shist.msgs < MaxMessages
       /\ CASE m.m = "quote_completed" ->
                 /\ stream' = [stream EXCEPT !.completed = @ \cup {t}]
                 /\ shist' = [counted EXCEPT !.emitted =
                                Append(@, StreamEventOf("quote_completed", t,
                                                        QuoteOf(stream.quotes, t), ""))]
            [] m.m = "qsd" ->
                 /\ stream' = [stream EXCEPT !.quotes = With(@, t, merged)]
                 /\ shist' = [counted EXCEPT
                                !.recvd = With(@, t, seen),
                                !.emitted = IF ForwardUpdate(t, stream.completed)
                                            THEN Append(@, [StreamEventOf("quote_update", t, merged, "")
                                                               EXCEPT !.seen = seen])
                                            ELSE @]
            [] OTHER ->
                 /\ stream' = stream
                 /\ shist' = [counted EXCEPT !.emitted =
                                Append(@, StreamEventOf("error", "", <<>>, "upstream"))]
       /\ UNCHANGED <<engineVars, dispVars, scalerVars, eventVars, screenVars, pureVars>>

\* stream_quotes, lines 161-168: the connection fails, with ConnectionClosed
\* or with any other exception
StreamFails(type) ==
    /\ stream.pc = "connected"
    /\ stream' = [stream EXCEPT !.pc = "loop", !.attempts = @ + 1, !.socket = FALSE]
    /\ shist' = [shist EXCEPT !.emitted =
                    Append(@, StreamEventOf(type, "", <<>>,
                                            IF type = "error" THEN "exception" ELSE ""))]
    /\ UNCHANGED <<engineVars, dispVars, scalerVars, eventVars, screenVars, pureVars>>

\* stream_quotes, lines 159 and 167-171: the WebSocket closes normally
StreamCloses ==
    /\ stream.pc = "connected"
    /\ stream' = [stream EXCEPT !.pc = "ended", !.socket = FALSE]
    /\ UNCHANGED <<shist, engineVars, dispVars, scalerVars, eventVars, screenVars, pureVars>>

\* stream_quotes, lines 126 and 170-171: out of attempts
StreamGiveUp ==
    /\ stream.pc = "loop"
    /\ ~MayConnect(stream.attempts)
    /\ stream' = [stream EXCEPT !.pc = "ended"]
    /\ shist' = IF stream.attempts > reconnect_attempts
                THEN [shist EXCEPT !.emitted =
                         Append(@, StreamEventOf("error", "", <<>>, "max"))]
                ELSE shist
    /\ UNCHANGED <<engineVars, dispVars, scalerVars, eventVars, screenVars, pureVars>>

\* remove_symbols(symbols), lines 100-108; it returns at once on a streamer
\* without a session or a socket
RemoveSymbols(symbols) ==
    /\ stream.socket
    /\ stream' = [stream EXCEPT !.session = @ \ Range(symbols),
                                !.quotes = [t \in DOMAIN @ \ Range(symbols) |-> @[t]],
                                !.completed = @ \ Range(symbols)]
    /\ shist' = [shist EXCEPT !.recvd = [t \in DOMAIN @ \ Range(symbols) |-> @[t]]]
    /\ UNCHANGED <<engineVars, dispVars, scalerVars, eventVars, screenVars, pureVars>>

StreamAtRest ==
    /\ stream = [pc |-> "loop", attempts |-> 0, socket |-> FALSE, session |-> {},
                 quotes |-> <<>>, completed |-> {}]
    /\ shist = [emitted |-> <<>>, connects |-> 0, sleeps |-> 0, msgs |-> 0, recvd |-> <<>>]

NextStreamer ==
    \/ StreamConnect
    \/ StreamConnectFails
    \/ \E m \in Messages : StreamMessage(m)
    \/ \E type \in {"disconnected", "error"} : StreamFails(type)
    \/ StreamCloses
    \/ StreamGiveUp
    \/ \E t \in Range(StreamTickers) : RemoveSymbols(<<t>>)

----------------------------------------------------------------------------
(* The screener sessions of one WebSocket connection (modules/api/ws.py)     *)
(* over the symbols table queried by query_symbols (scanner/data.py).  The   *)
(* connection handles one request at a time (WSSession.listen); a handler    *)
(* is one step.                                                              *)

MaxRequests == 4    \* requests handled on the connection
MaxCycles == 1      \* cycles of the realtime loops
batch_size == 2     \* batched(symbols, 500), scaled to the table
UnknownTags == {"PING"}
Sids == {"s1"}

\* The table symbols; name stands for the rank of the name in the sort order
SymbolsTable ==
    {[ticker |-> "T1", name |-> 1, logo |-> "l1", day_close |-> 10, mcap |-> 2],
     [ticker |-> "T2", name |-> 2, logo |-> "l2", day_close |-> 20, mcap |-> 1],
     [ticker |-> "T3", name |-> 3, logo |-> "l3", day_close |-> 30, mcap |-> 2]}

NoUniverse == [some |-> FALSE, list |-> <<>>]
FBig  == [colId |-> "mcap", type |-> "greaterThan", filter |-> 1]
FLate == [colId |-> "name", type |-> "greaterThan", filter |-> 1]
ByMcap == [colId |-> "mcap", sort |-> "DESC"]
NameAsc == [colId |-> "name", sort |-> "ASC"]

SubscribeRequests ==
    [t : {"SCREENER_SUBSCRIBE"}, session_id : Sids, filters : {<<>>, <<FBig>>},
     filter_merge : {"OR"}, sort : {<<>>}, columns : {<<>>},
     range : {<<>>, <<0, 2>>}, universe : {NoUniverse}]

\* present holds the fields of the request that are not None
PatchRequests ==
    {[t |-> "SCREENER_PATCH", session_id |-> sid, present |-> p,
      filters |-> <<FBig, FLate>>, filter_merge |-> "AND", sort |-> <<ByMcap>>,
      columns |-> <<"ticker", "mcap">>, range |-> r] :
        sid \in Sids,
        p \in {{}, {"columns"}, {"sort"}, {"filters", "filter_merge"}},
        r \in {<<0, 0>>}}
    \cup {[t |-> "SCREENER_PATCH", session_id |-> sid, present |-> {"range"},
           filters |-> <<>>, filter_merge |-> "OR", sort |-> <<>>,
           columns |-> <<>>, range |-> r] :
             sid \in Sids, r \in {<<0, 2>>, <<1, 3>>, <<2, 1>>, <<1, 1>>, <<0, -1>>}}

UniverseRequests ==
    [t : {"SCREENER_SET_UNIVERSE"}, session_id : Sids,
     universe : {NoUniverse, [some |-> TRUE, list |-> <<"T1", "T3">>],
                 [some |-> TRUE, list |-> <<>>]}]

\* base_filter_to_sql, as the condition holds of a row
FilterHolds(f, r) ==
    CASE f.type = "greaterThan" -> r[f.colId] > f.filter
      [] f.type = "lessThan" -> r[f.colId] < f.filter
      [] f.type = "equals" -> r[f.colId] = f.filter

\* where_sql_multiple: the universe, and the filters joined by filter_merge
Where(filters, filter_merge, universe, r) ==
    IF universe.some /\ universe.list = <<>> THEN FALSE
    ELSE /\ universe.some => r.ticker \in Range(universe.list)
         /\ \/ filters = <<>>
            \/ /\ filter_merge = "AND"
               /\ \A i \in DOMAIN filters : FilterHolds(filters[i], r)
            \/ /\ filter_merge # "AND"
               /\ \E i \in DOMAIN filters : FilterHolds(filters[i], r)

RECURSIVE Before(_, _, _)
\* order_by_sql: r1 comes before r2 under the sort fields
Before(r1, r2, sort_fields) ==
    IF sort_fields = <<>> THEN FALSE
    ELSE LET f == Head(sort_fields)
         IN IF r1[f.colId] = r2[f.colId] THEN Before(r1, r2, Tail(sort_fields))
            ELSE IF f.sort = "DESC" THEN r1[f.colId] > r2[f.colId]
            ELSE r1[f.colId] < r2[f.colId]

\* limit_offset_sql: OFFSET and LIMIT when given; page is <<limit, offset>>
limit_offset_sql(rows, page) ==
    IF page = <<>> THEN rows ELSE Take(Drop(rows, page[2]), page[1])

\* query_symbols: the rows of the table that pass the WHERE clause, in the
\* order of ORDER BY, cut by LIMIT and OFFSET, with the columns selected
query_symbols(columns, filters, filter_merge, sort_fields, page, universe) ==
    LET passing == {r \in SymbolsTable : Where(filters, filter_merge, universe, r)}
        ordered == CHOOSE o \in Orders(passing) :
                      \A i, j \in DOMAIN o : i < j => ~Before(o[j], o[i], sort_fields)
        cut == limit_offset_sql(ordered, page)
    IN [i \in DOMAIN cut |-> [k \in DOMAIN columns |-> cut[i][columns[k]]]]

\* An end that is one row too far
InclusiveLimit(start, end) == end - start + 1
\* A patch that takes every field of the request, present or not
PatchAllFields(s, req) ==
    [s EXCEPT !.filter_merge = req.filter_merge, !.columns = req.columns,
              !.filters = req.filters, !.range = req.range, !.sort = req.sort]
\* An unsubscribe that leaves the task running
KeepTask(s) == s

\* limit = end - start (line 193)
PageLimit(start, end) == end - start

\* prefetch_live_symbols (lines 171-177)
LiveSymbols(s) ==
    query_symbols(<<"ticker">>, s.filters, s.filter_merge, s.sort, <<>>, s.universe)

\* dispatch_full_response (lines 187-216): the messages it sends
FullResponse(s) ==
    LET start == s.range[1]
        end == s.range[2]
        total == Len(query_symbols(<<"ticker">>, s.filters, s.filter_merge, <<>>, <<>>,
                                   s.universe))
        d == query_symbols(s.columns, s.filters, s.filter_merge, s.sort,
                           <<PageLimit(start, end), start>>, s.universe)
    IN IF end < start \/ end < 0 THEN <<>>
       ELSE <<[t |-> "SCREENER_FULL_RESPONSE", session_id |-> s.session_id,
               c |-> s.columns, d |-> d, range |-> s.range, total |-> total]>>

\* ScreenerSession(ws, session_id, token) and subscribe, lines 121-129 and 131
NewSession(req, token, gen) ==
    LET s == [session_id |-> req.session_id, gen |-> gen, token |-> token,
              universe |-> req.universe,
              columns |-> IF Len(req.columns) = 0
                          THEN <<"ticker", "name", "logo", "day_close">>
                          ELSE req.columns,
              range |-> IF Len(req.range) < 2 THEN <<0, -1>> ELSE req.range,
              filters |-> req.filters,
              filter_merge |-> req.filter_merge,
              sort |-> Append(req.sort, NameAsc),
              live_symbols |-> <<>>,
              task |-> "running"]
    IN [s EXCEPT !.live_symbols = LiveSymbols(s)]

\* patch, lines 138-159: the fields of the request that are not None
PatchFields(s, req) ==
    LET has(f) == f \in req.present
    IN [s EXCEPT
          !.filter_merge = IF has("filter_merge") THEN req.filter_merge ELSE @,
          !.columns = IF has("columns")
                      THEN (IF Len(req.columns) = 0 THEN <<"name">> ELSE req.columns)
                      ELSE @,
          !.filters = IF has("filters") THEN req.filters ELSE @,
          !.range = IF has("range") THEN req.range ELSE @,
          !.sort = IF has("sort") THEN Append(req.sort, NameAsc) ELSE @]

\* unsubscribe, lines 133-135
Unsubscribed(s) == [s EXCEPT !.task = "cancelled"]

\* A request is handled: it is noted, the messages are sent, the state is set
Handle(req, msgs, w) ==
    /\ wss.conn = "open"
    /\ Len(SelectSeq(wlog, LAMBDA e : e.dir = "in")) < MaxRequests
    /\ wlog' = wlog \o <<[dir |-> "in", m |-> req]>>
                    \o [i \in DOMAIN msgs |-> [dir |-> "out", m |-> msgs[i]]]
    /\ wss' = w
    /\ UNCHANGED <<engineVars, dispVars, scalerVars, eventVars, streamVars, pureVars>>

\* on_auth, lines 258-260
OnAuth(req) ==
    Handle(req, <<>>, IF req.token # "no_auth" THEN [wss EXCEPT !.token = req.token] ELSE wss)

\* on_screener_subscribe, lines 262-268, with ScreenerSession.subscribe.  For a
\* session_id of the table the coroutine of send_json is returned, not
\* awaited: nothing is sent.
OnScreenerSubscribe(req) ==
    LET sid == req.session_id IN
    IF sid \in DOMAIN wss.ss THEN Handle(req, <<>>, wss)
    ELSE Handle(req, <<[t |-> "SCREENER_SUBSCRIBED", session_id |-> sid]>>,
                [wss EXCEPT !.ss = With(@, sid, NewSession(req, wss.token, wss.made + 1)),
                            !.made = @ + 1])

\* on_screener_unsubscribe, lines 270-273.  A popped session whose task runs
\* on is still referred to by the task.
OnScreenerUnsubscribe(req) ==
    LET sid == req.session_id
        s == Unsubscribed(wss.ss[sid])
    IN IF sid \notin DOMAIN wss.ss THEN Handle(req, <<>>, wss)
       ELSE Handle(req, <<>>,
                   [wss EXCEPT !.ss = Without(@, sid),
                               !.popped = IF s.task = "running" THEN @ \cup {s} ELSE @])

\* on_screener_patch, lines 275-277, with ScreenerSession.patch
OnScreenerPatch(req) ==
    LET sid == req.session_id
        s == PatchFields(wss.ss[sid], req)
    IN IF sid \notin DOMAIN wss.ss \/ req.present = {} THEN Handle(req, <<>>, wss)
       ELSE Handle(req,
                   <<[t |-> "SCREENER_PATCHED", session_id |-> sid]>> \o FullResponse(s),
                   [wss EXCEPT !.ss[sid] = [s EXCEPT !.live_symbols = LiveSymbols(s)]])

\* on_screener_set_universe, lines 279-281, with ScreenerSession.set_universe
OnScreenerSetUniverse(req) ==
    LET sid == req.session_id
        s == [wss.ss[sid] EXCEPT !.universe = req.universe]
    IN IF sid \notin DOMAIN wss.ss THEN Handle(req, <<>>, wss)
       ELSE Handle(req, FullResponse(s),
                   [wss EXCEPT !.ss[sid] = [s EXCEPT !.live_symbols = LiveSymbols(s)]])

\* listen, lines 226-234: a frame that adapter.validate_json rejects, as one
\* whose t is no tag of WSSessionRequest, is answered with str(e) of the
\* ValidationError.  on_data is not called: its last branch (line 256) is
\* reached by no value the adapter returns.  t tags the frame in the log.
ValidationErrorText(tag) ==
    <<"Input tag", tag, "found using 't' does not match any of the expected tags">>
OnInvalid(req) ==
    Handle(req, <<[t |-> "error", error |-> ValidationErrorText(req.t)]>>, wss)

\* on_disconnect, lines 238-242, run by listen when WebSocketDisconnect
\* reaches it (lines 235-236)
OnDisconnect ==
    /\ wss.conn = "open"
    /\ wss' = [wss EXCEPT !.conn = "closed", !.ss = <<>>,
                          !.popped = @ \cup {s \in {Unsubscribed(wss.ss[sid]) : sid \in DOMAIN wss.ss} :
                                                s.task = "running"}]
    /\ UNCHANGED <<wlog, engineVars, dispVars, scalerVars, eventVars, streamVars, pureVars>>

\* listen, line 228: iter_text ends the iteration when the client disconnects
\* (it takes the WebSocketDisconnect of receive_text itself), the async for is
\* left and listen returns; on_disconnect is not called
ListenEnds ==
    /\ wss.conn = "open"
    /\ wss' = [wss EXCEPT !.conn = "closed"]
    /\ UNCHANGED <<wlog, engineVars, dispVars, scalerVars, eventVars, streamVars, pureVars>>

RECURSIVE batched(_, _)
\* itertools.batched (quotes.py, line 8)
batched(symbols, n) ==
    IF symbols = <<>> THEN <<>>
    ELSE <<Take(symbols, n)>> \o batched(Drop(symbols, n), n)

\* The messages of one cycle of dispatch_realtime, lines 181-184, with
\* fetch_quotes; the quotes of a batch stand as the symbols of the batch
CycleMessages(s) ==
    IF s.token # "" /\ Len(s.live_symbols) # 0
    THEN LET b == batched(s.live_symbols, batch_size)
         IN [i \in DOMAIN b |-> [t |-> "SCREENER_PARTIAL_RESPONSE",
                                 session_id |-> s.session_id, gen |-> s.gen,
                                 d |-> b[i]]]
    ELSE <<>>

\* The task of session s has the state task
WithTask(w, s, task) ==
    [w EXCEPT !.ss = [sid \in DOMAIN w.ss |->
                         IF w.ss[sid].gen = s.gen THEN [w.ss[sid] EXCEPT !.task = task]
                         ELSE w.ss[sid]],
              !.popped = {IF p.gen = s.gen THEN [p EXCEPT !.task = task] ELSE p :
                             p \in w.popped}]

\* dispatch_realtime, lines 179-185: one cycle of the task of a session, up
\* to its sleep.  The cycle is noted in the log, then the messages it sends.
\* fetch_quotes may raise (raise_for_status, quotes.py:27), here before a
\* batch is sent; nothing in dispatch_realtime catches it and the task ends.
\* On a connection the client has left, send_json either raises, which ends
\* the task, or the frame is dropped by the server.
DispatchRealtime(s) ==
    LET msgs == CycleMessages(s)
        mark == [dir |-> "cycle",
                 m |-> [t |-> "cycle", session_id |-> s.session_id, gen |-> s.gen]]
    IN /\ s.task = "running"
       /\ Len(SelectSeq(wlog, LAMBDA e : e.dir = "cycle")) < MaxCycles
       /\ \/ /\ wss.conn = "open"
             /\ wlog' = wlog \o <<mark>>
                             \o [i \in DOMAIN msgs |-> [dir |-> "out", m |-> msgs[i]]]
             /\ wss' = wss
          \/ /\ wss.conn = "open"
             /\ msgs # <<>>
             /\ wlog' = wlog \o <<mark>>
             /\ wss' = WithTask(wss, s, "failed")
          \/ /\ wss.conn = "closed"
             /\ wlog' = wlog \o <<mark>>
             /\ \/ wss' = wss
                \/ msgs # <<>> /\ wss' = WithTask(wss, s, "failed")
       /\ UNCHANGED <<engineVars, dispVars, scalerVars, eventVars, streamVars, pureVars>>

ScreenerAtRest ==
    /\ wss = [conn |-> "open", token |-> "", ss |-> <<>>, made |-> 0, popped |-> {}]
    /\ wlog = <<>>

NextScreener ==
    \/ \E token \in {"no_auth", "tok"} : OnAuth([t |-> "AUTH", token |-> token])
    \/ \E req \in SubscribeRequests : OnScreenerSubscribe(req)
    \/ \E sid \in Sids : OnScreenerUnsubscribe([t |-> "SCREENER_UNSUBSCRIBE", session_id |-> sid])
    \/ \E req \in PatchRequests : OnScreenerPatch(req)
    \/ \E req \in UniverseRequests : OnScreenerSetUniverse(req)
    \/ \E tag \in UnknownTags : OnInvalid([t |-> tag])
    \/ OnDisconnect
    \/ ListenEnds
    \/ \E s \in {wss.ss[sid] : sid \in DOMAIN wss.ss} \cup wss.popped : DispatchRealtime(s)

----------------------------------------------------------------------------
(* The scanner (modules/ezscan).  POST /scan validates a ScanRequest and     *)
(* runs ScannerEngine.scan over the candles loaded at construction, with the *)
(* ExpressionCache of the engine's evaluator.  The requests have computed    *)
(* conditions, computed and condition columns, and no sort_columns.          *)

MaxScans == 3       \* requests of POST /scan

\* symbol_data: its keys in order, and the bars of each symbol
ScanSymbols == <<"S1", "S2">>
Candles == [S1 |-> <<[o |-> 1, c |-> 2], [o |-> 2, c |-> 3]>>,
            S2 |-> <<[o |-> 1, c |-> 2], [o |-> 3, c |-> 2]>>]

\* Python values: a pandas Series, a number, a bool (None and Raised as above)
Series(x) == [kind |-> "series", v |-> x]
Num(n)    == [kind |-> "num", v |-> n]
Bool(b)   == [kind |-> "bool", v |-> b]

\* Conditions and columns of the requests; <<>> stands for None
CUp == [expression |-> "c > o", evaluation_period |-> "now", evaluation_type |-> "boolean",
        value |-> <<>>, condition_type |-> "computed", rank_min |-> <<>>, rank_max |-> <<>>]
CAgo == [CUp EXCEPT !.evaluation_period = "x_bar_ago"]
CRank0 == [CUp EXCEPT !.expression = "c", !.evaluation_type = "rank", !.rank_min = <<0>>]
ColClose == [id |-> "c1", name |-> "close", type |-> "computed", expression |-> "c",
             conditions |-> <<>>, logic |-> "and"]
ColLast == [ColClose EXCEPT !.name = "last"]
ColIsUp == [id |-> "c2", name |-> "is_up", type |-> "condition", expression |-> "",
            conditions |-> <<CUp>>, logic |-> "and"]
\* An expression whose evaluation fails: eval raises NameError for `x`
CBad == [CUp EXCEPT !.expression = "x > 0"]
ColBad == [id |-> "c3", name |-> "bad", type |-> "computed", expression |-> "x",
           conditions |-> <<>>, logic |-> "and"]
ScanRequests ==
    [conditions : {<<>>, <<CUp>>, <<CAgo>>, <<CRank0>>, <<CBad, CUp>>},
     columns : {<<>>, <<ColClose>>, <<ColIsUp>>, <<ColClose, ColLast>>, <<ColBad, ColClose>>},
     logic : {"and", "or"}]

\* Condition.check_rank_fields (requests.py:57-78), the one validator of the
\* request models that is registered with pydantic; check_evaluation_period,
\* check_value and check_unique_column_ids carry no validator decorator and
\* are never called
check_rank_fields(cond) ==
    LET rank_min == IF cond.rank_min = <<>> THEN 1 ELSE cond.rank_min[1]
        rank_max == IF cond.rank_max = <<>> THEN 99 ELSE cond.rank_max[1]
    IN IF cond.evaluation_type # "rank"
       THEN Value([cond EXCEPT !.rank_min = <<>>, !.rank_max = <<>>])
       ELSE IF \/ rank_min < 1 \/ rank_min > 100
               \/ rank_max < 1 \/ rank_max > 100
               \/ rank_max < rank_min
            THEN Raised
            ELSE Value([cond EXCEPT !.rank_min = <<rank_min>>, !.rank_max = <<rank_max>>])

\* The validation of ScanRequest (requests.py:113-126) with its conditions and
\* the conditions of its columns
ValidRequest(req) ==
    /\ \A i \in DOMAIN req.conditions : check_rank_fields(req.conditions[i]).kind = "value"
    /\ \A i \in DOMAIN req.columns : \A j \in DOMAIN req.columns[i].conditions :
          check_rank_fields(req.columns[i].conditions[j]).kind = "value"

\* The cache of an evaluator: whether it is enabled, and _cache by the prefix
\* of the key (cond, val, condcol); hash(expression) stands as the expression
EmptyCache(enabled) == [enabled |-> enabled, cond |-> <<>>, val |-> <<>>, condcol |-> <<>>]

\* ExpressionCache.get and set (cache.py:28-58)
cache_get(c, part, key) ==
    IF ~c.enabled THEN None
    ELSE IF key \in DOMAIN c[part] THEN c[part][key] ELSE None
cache_set(c, part, key, value) ==
    IF c.enabled THEN [c EXCEPT ![part] = With(@, key, value)] ELSE c

\* `if cached_result := self.cache.get(cache_key)`: the truth value of what
\* get returns.  None, 0 and False are falsy; a pandas Series has no truth
\* value, bool() of it raises ValueError
Truth(x) ==
    CASE x.kind = "none" -> "falsy"
      [] x.kind = "series" -> "raise"
      [] x.kind = "bool" -> IF x.v THEN "truthy" ELSE "falsy"
      [] x.kind = "num" -> IF x.v # 0 THEN "truthy" ELSE "falsy"

\* _evaluate_expression (expression_evaluator.py:266-283): eval of the
\* expression over the columns of the candles
evaluate_expression(symbol, expression) ==
    LET df == Candles[symbol]
    IN CASE expression = "c > o" -> Series([i \in DOMAIN df |-> df[i].c > df[i].o])
         [] expression = "c" -> Series([i \in DOMAIN df |-> df[i].c])
         [] OTHER -> Raised

\* evaluate_condition_expression (expression_evaluator.py:54-74): the value
\* it returns, or Raised, and the cache after it
evaluate_condition_expression(c, symbol, expression) ==
    LET key == <<symbol, expression>>
        Stored(bool_series) ==
            [out |-> bool_series, cache |-> cache_set(c, "cond", key, bool_series)]
        Computed(result) ==
            Stored(IF result.kind = "raise"
                   THEN Series([i \in DOMAIN Candles[symbol] |-> FALSE])
                   ELSE IF expression = "c"
                   THEN Series([i \in DOMAIN result.v |-> result.v[i] # 0])
                   ELSE result)
        Looked(got, truth) ==
            IF truth = "raise" THEN [out |-> Raised, cache |-> c]
            ELSE IF truth = "truthy" THEN [out |-> got, cache |-> c]
            ELSE Computed(evaluate_expression(symbol, expression))
        Got(got) == Looked(got, Truth(got))
    IN Got(cache_get(c, "cond", key))

\* evaluate_value_expression (expression_evaluator.py:24-52)
evaluate_value_expression(c, symbol, expression) ==
    LET key == <<symbol, expression>>
        Stored(last_val) == [out |-> last_val, cache |-> cache_set(c, "val", key, last_val)]
        Computed(result) ==
            Stored(IF result.kind = "raise" \/ Len(result.v) = 0 THEN None
                   ELSE IF expression = "c > o" THEN Bool(result.v[Len(result.v)])
                   ELSE Num(result.v[Len(result.v)]))
        Looked(got, truth) ==
            IF truth = "raise" THEN [out |-> Raised, cache |-> c]
            ELSE IF truth = "truthy" THEN [out |-> got, cache |-> c]
            ELSE Computed(evaluate_expression(symbol, expression))
        Got(got) == Looked(got, Truth(got))
    IN Got(cache_get(c, "val", key))

\* A reduction that looks at the last element whatever the period
LastElement(bool_series, mode, value) ==
    Bool(bool_series # <<>> /\ bool_series[Len(bool_series)])

\* reduce_condition_by_period (expression_evaluator.py:285-299): `and value`
\* is false for None and for 0; iloc[-value] and tail(value) as pandas has them
reduce_condition_by_period(bool_series, mode, value) ==
    LET n == Len(bool_series)
        given == value # <<>> /\ value[1] # 0
        k == value[1]
        at == IF k > 0 THEN n - k + 1 ELSE 1 - k
        tail == IF k > 0 THEN (IF n - k + 1 > 1 THEN n - k + 1 ELSE 1)..n ELSE (1 - k)..n
    IN IF n = 0 THEN Bool(FALSE)
       ELSE IF mode = "now" THEN Bool(bool_series[n])
       ELSE IF mode = "x_bar_ago" /\ given
       THEN (IF n >= k THEN (IF at \in 1..n THEN Bool(bool_series[at]) ELSE Raised)
             ELSE Bool(FALSE))
       ELSE IF mode = "within_last" /\ given THEN Bool(\E i \in tail : bool_series[i])
       ELSE IF mode = "in_row" /\ given
       THEN (IF n >= k THEN Bool(\A i \in tail : bool_series[i]) ELSE Bool(FALSE))
       ELSE Bool(FALSE)

\* Lines 202-207 and 252-253: the condition evaluated and reduced by its
\* period, or Raised, and the cache after it
condition_result(c, symbol, cond) ==
    LET Reduced(e) ==
            [r |-> IF e.out.kind = "raise" THEN Raised
                   ELSE reduce_condition_by_period(e.out.v, cond.evaluation_period,
                                                   cond.value),
             cache |-> e.cache]
    IN Reduced(evaluate_condition_expression(c, symbol, cond.expression))

RECURSIVE process_symbol_computed_conditions(_, _, _)
\* _process_symbol_computed_conditions (scanner_engine.py:182-222), the loop
\* of lines 200-211: an exception counts as False
process_symbol_computed_conditions(c, symbol, conditions) ==
    LET Joined(result, rest) ==
            [results |-> <<result>> \o rest.results, cache |-> rest.cache]
        Then(e) ==
            Joined(IF e.r.kind = "raise" THEN FALSE ELSE e.r.v,
                   process_symbol_computed_conditions(e.cache, symbol, Tail(conditions)))
    IN IF conditions = <<>> THEN [results |-> <<>>, cache |-> c]
       ELSE Then(condition_result(c, symbol, Head(conditions)))

\* all(condition_results), whatever the logic
AllOf(results, logic) == \A i \in DOMAIN results : results[i]

\* all(condition_results) or any(condition_results)
Combined(results, logic) ==
    IF logic = "and" THEN \A i \in DOMAIN results : results[i]
    ELSE \E i \in DOMAIN results : results[i]

RECURSIVE evaluate_computed_conditions(_, _, _, _)
\* _evaluate_computed_conditions (scanner_engine.py:157-180): the symbols
\* selected, the cache after it, and the condition_results of each symbol
\* evaluated
evaluate_computed_conditions(c, symbols, conditions, logic) ==
    LET Joined(passes, results, rest) ==
            [selected |-> (IF passes THEN <<Head(symbols)>> ELSE <<>>) \o rest.selected,
             cache |-> rest.cache,
             results |-> <<results>> \o rest.results]
        Then(p) ==
            Joined(Combined(p.results, logic), p.results,
                   evaluate_computed_conditions(p.cache, Tail(symbols), conditions, logic))
    IN IF conditions = <<>> THEN [selected |-> symbols, cache |-> c, results |-> <<>>]
       ELSE IF symbols = <<>> THEN [selected |-> <<>>, cache |-> c, results |-> <<>>]
       ELSE Then(process_symbol_computed_conditions(c, Head(symbols), conditions))

RECURSIVE condition_results(_, _, _)
\* The loop of evaluate_condition_column (expression_evaluator.py:234-254) over
\* computed conditions of boolean evaluation; it is left by an exception
condition_results(c, symbol, conditions) ==
    LET Joined(result, rest) ==
            [raised |-> rest.raised, results |-> <<result>> \o rest.results,
             cache |-> rest.cache]
        Then(e) ==
            IF e.r.kind = "raise" THEN [raised |-> TRUE, results |-> <<>>, cache |-> e.cache]
            ELSE Joined(e.r.v, condition_results(e.cache, symbol, Tail(conditions)))
    IN IF conditions = <<>> THEN [raised |-> FALSE, results |-> <<>>, cache |-> c]
       ELSE Then(condition_result(c, symbol, Head(conditions)))

\* evaluate_condition_column (expression_evaluator.py:222-264)
evaluate_condition_column(c, symbol, conditions, logic) ==
    LET key == <<symbol, conditions, logic>>
        Stored(final_result, after) ==
            [out |-> final_result, cache |-> cache_set(after, "condcol", key, final_result)]
        Ran(run) == Stored(Bool(~run.raised /\ Combined(run.results, logic)), run.cache)
        Got(got) ==
            IF Truth(got) = "truthy" THEN [out |-> got, cache |-> c]
            ELSE Ran(condition_results(c, symbol, conditions))
    IN Got(cache_get(c, "condcol", key))

\* The value of one column for a symbol (scanner_engine.py:366-397)
column_value(c, symbol, column) ==
    IF column.type = "computed"
    THEN (IF column.expression # ""
          THEN evaluate_value_expression(c, symbol, column.expression)
          ELSE [out |-> None, cache |-> c])
    ELSE (IF column.conditions # <<>>
          THEN evaluate_condition_column(c, symbol, column.conditions, column.logic)
          ELSE [out |-> Bool(FALSE), cache |-> c])

RECURSIVE evaluate_non_static_columns(_, _, _)
\* _evaluate_non_static_columns (scanner_engine.py:348-399): the values of the
\* columns for a symbol, in order; an exception gives None
evaluate_non_static_columns(c, symbol, columns) ==
    LET Joined(value, rest) == [values |-> <<value>> \o rest.values, cache |-> rest.cache]
        Then(e) ==
            Joined(IF e.out.kind = "raise" THEN None ELSE e.out,
                   evaluate_non_static_columns(e.cache, symbol, Tail(columns)))
    IN IF columns = <<>> THEN [values |-> <<>>, cache |-> c]
       ELSE Then(column_value(c, symbol, Head(columns)))

RECURSIVE evaluate_columns_vectorized(_, _, _)
\* _evaluate_columns_vectorized (scanner_engine.py:224-265): a row per symbol,
\* the symbol and then the values of the computed and the condition columns
evaluate_columns_vectorized(c, symbols, non_static_columns) ==
    LET Joined(row, rest) == [rows |-> <<row>> \o rest.rows, cache |-> rest.cache]
        Then(e) ==
            Joined(<<Head(symbols)>> \o e.values,
                   evaluate_columns_vectorized(e.cache, Tail(symbols), non_static_columns))
    IN IF symbols = <<>> THEN [rows |-> <<>>, cache |-> c]
       ELSE Then(evaluate_non_static_columns(c, Head(symbols), non_static_columns))

\* _process_results (scanner_engine.py:401-476) for sort_columns = None, and
\* the dict scan returns (lines 126-131)
process_results(rows, non_static_columns) ==
    LET Result(kept) ==
            [columns |-> <<"symbol">> \o [i \in DOMAIN non_static_columns |->
                                             non_static_columns[i].name],
             data |-> kept, count |-> Len(kept), success |-> TRUE]
    IN Result(SelectSeq(rows, LAMBDA r :
                  non_static_columns = <<>> \/ \E i \in 2..Len(r) : r[i].kind # "none"))

\* ScannerEngine.scan (scanner_engine.py:55-131): what it returns and the
\* cache after it, with the symbols phase 2 selected and the condition_results
\* of the symbols
scan(c, req) ==
    LET non_static_columns ==
            SelectSeq(req.columns, LAMBDA x : x.type = "computed")
                \o SelectSeq(req.columns, LAMBDA x : x.type = "condition")
        Columns(e, p2) ==
            [out |-> process_results(e.rows, non_static_columns), cache |-> e.cache,
             selected |-> p2.selected, results |-> p2.results]
        Phase2(p2) ==
            IF p2.selected = <<>>
            THEN [out |-> [columns |-> <<"symbol">> \o [i \in DOMAIN req.columns |->
                                                           req.columns[i].name],
                           data |-> <<>>, count |-> 0, success |-> FALSE],
                  cache |-> p2.cache, selected |-> <<>>, results |-> p2.results]
            ELSE Columns(evaluate_columns_vectorized(p2.cache, p2.selected,
                                                     non_static_columns), p2)
    IN Phase2(evaluate_computed_conditions(
                  c, ScanSymbols,
                  SelectSeq(req.conditions, LAMBDA x : x.condition_type = "computed"),
                  req.logic))

\* POST /scan (api/routes.py:45-58): a request that fails validation is
\* answered with 422 and no scan is run.  plain is what an engine constructed
\* with cache_enabled=False returns for the request; its cache stays empty.
\* selected and results are those of the scan that was run.
ScanRoute(req) ==
    /\ Len(scans) < MaxScans
    /\ IF ValidRequest(req)
       THEN \E r \in {scan(cache, req)} :
               /\ cache' = r.cache
               /\ scans' = Append(scans, [req |-> req, status |-> 200, out |-> r.out,
                                          plain |-> scan(EmptyCache(FALSE), req).out,
                                          selected |-> r.selected,
                                          results |-> r.results])
       ELSE /\ cache' = cache
            /\ scans' = Append(scans, [req |-> req, status |-> 422, out |-> <<>>,
                                       plain |-> <<>>, selected |-> <<>>,
                                       results |-> <<>>])
    /\ UNCHANGED <<engineVars, dispVars, scalerVars, eventVars, streamVars, screenVars,
                   callVars>>

\* POST /clear-cache (api/routes.py:74-78)
ClearCache ==
    /\ cache # EmptyCache(TRUE)
    /\ cache' = EmptyCache(TRUE)
    /\ UNCHANGED <<scans, engineVars, dispVars, scalerVars, eventVars, streamVars,
                   screenVars, callVars>>

ScannerAtRest ==
    /\ cache = EmptyCache(TRUE)
    /\ scans = <<>>

NextScanner ==
    \/ \E req \in ScanRequests : ScanRoute(req)
    \/ ClearCache

NoCall == call = [fn |-> "none"]

----------------------------------------------------------------------------
(* reduce_condition_by_period (expression_evaluator.py) called on boolean    *)
(* series                                                                    *)

MaxSeries == 3      \* longest boolean series
BoolSeries == UNION {[1..n -> BOOLEAN] : n \in 0..MaxSeries}
Periods == {"now", "x_bar_ago", "within_last", "in_row"}
\* value: None, or an int
PeriodValues == {<<>>} \cup {<<n>> : n \in -1..(MaxSeries + 1)}

\* reduce_condition_by_period(bool_series, mode, value) is called
Reduce(bool_series, mode, value) ==
    /\ call' = [fn |-> "reduce_condition_by_period", bool_series |-> bool_series,
                mode |-> mode, value |-> value,
                result |-> reduce_condition_by_period(bool_series, mode, value)]
    /\ UNCHANGED <<engineVars, dispVars, scalerVars, eventVars, streamVars, screenVars,
                   scanVars>>

NextReduce ==
    \E bool_series \in BoolSeries, mode \in Periods, value \in PeriodValues :
        Reduce(bool_series, mode, value)

----------------------------------------------------------------------------
(* evaluate_alert (src/modules/alerts/evaluator.py) called on trend-line     *)
(* alerts and ticks                                                          *)

\* Points of a trend line (price in units of 0.0001), alerts and ticks
TrendPoints == [time : {0, 100}, price : {1000000, 2000000}]
TrendShapes ==
    {[operator |-> op, rhs_type |-> "trend_line", constant |-> 0, trend_line |-> <<p1, p2>>] :
        op \in {">=", "<"}, p1 \in TrendPoints, p2 \in TrendPoints}
TrendTicks ==
    [symbol : {"X"}, ltp : {500000, 1000000, 1499990, 1500000, 2000000, 2500000},
     ltt : {-50, 0, 50, 100, 150}]

\* evaluate_alert(alert, update) is called
Evaluate(shape, update) ==
    /\ call' = [fn |-> "evaluate_alert", shape |-> shape, update |-> update,
                result |-> evaluate_alert(Alert("A", [symbol |-> update.symbol,
                                                      shape |-> shape]), update)]
    /\ UNCHANGED <<engineVars, dispVars, scalerVars, eventVars, streamVars, screenVars,
                   scanVars>>

NextEvaluate == \E shape \in TrendShapes, update \in TrendTicks : Evaluate(shape, update)

----------------------------------------------------------------------------
(* The framing of TradingViewQuoteStreamer (quote_streamer.py):              *)
(* _encode_message and _decode_message.  A str is a sequence of characters,  *)
(* a JSON object a sequence of <<key, value>> pairs with str values.         *)

MaxFrames == 3      \* payloads of one message

\* The character U+00E9, which is two bytes in UTF-8
Eacute == "U+00E9"
MESSAGE_PREFIX == <<"~", "m", "~">>
PayloadValues == {<<>>, <<"a">>, <<"~", "m", "~", "1">>, <<Eacute>>}
Payloads == {<<>>} \cup {<< <<"m", v>> >> : v \in PayloadValues}

\* s[a:b] and s.startswith(p) and s.find(p) of Python, for 0 <= a <= b
Slice(str, a, b) == Take(Drop(str, a), b - a)
StartsWith(str, p) == Len(str) >= Len(p) /\ SubSeq(str, 1, Len(p)) = p
Find(str, p) ==
    LET at == {i \in 0..(Len(str) - Len(p)) : SubSeq(str, i + 1, i + Len(p)) = p}
    IN IF at = {} THEN -1 ELSE CHOOSE i \in at : \A j \in at : i <= j

\* str(n) and int(s) for n >= 0; int raises ValueError when s is no number
DecimalDigits == <<"0", "1", "2", "3", "4", "5", "6", "7", "8", "9">>
RECURSIVE StrOfInt(_)
StrOfInt(n) ==
    IF n < 10 THEN <<DecimalDigits[n + 1]>>
    ELSE StrOfInt(n \div 10) \o <<DecimalDigits[(n % 10) + 1]>>
RECURSIVE IntOfDigits(_)
IntOfDigits(str) ==
    IF str = <<>> THEN 0
    ELSE 10 * IntOfDigits(SubSeq(str, 1, Len(str) - 1))
            + (CHOOSE d \in 0..9 : DecimalDigits[d + 1] = str[Len(str)])
IntOfStr(str) ==
    IF str # <<>> /\ \A i \in DOMAIN str : str[i] \in Range(DecimalDigits)
    THEN Value(IntOfDigits(str)) ELSE Raised

\* The number of bytes of a str in UTF-8
RECURSIVE ByteLength(_)
ByteLength(str) ==
    IF str = <<>> THEN 0
    ELSE (IF Head(str) = Eacute THEN 2 ELSE 1) + ByteLength(Tail(str))

\* A character written as it is, whatever it is
RawChar(ch) == <<ch>>

\* json.dumps with ensure_ascii (the default): a character outside ASCII is
\* written as \uXXXX
EscapeChar(ch) == IF ch = Eacute THEN <<"\\", "u", "0", "0", "e", "9">> ELSE <<ch>>
RECURSIVE Escaped(_)
Escaped(str) == IF str = <<>> THEN <<>> ELSE EscapeChar(Head(str)) \o Escaped(Tail(str))
RECURSIVE Unescaped(_)
Unescaped(str) ==
    IF str = <<>> THEN <<>>
    ELSE IF StartsWith(str, <<"\\", "u", "0", "0", "e", "9">>)
    THEN <<Eacute>> \o Unescaped(Drop(str, 6))
    ELSE <<Head(str)>> \o Unescaped(Tail(str))

\* json.dumps(item) of an object with at most one key
json_dumps(item) ==
    IF item = <<>> THEN <<"{", "}">>
    ELSE <<"{", "\"">> \o Escaped(<<item[1][1]>>) \o <<"\"", ":", " ", "\"">>
            \o Escaped(item[1][2]) \o <<"\"", "}">>

\* json.loads(m) of such a text: the object, or Raised (JSONDecodeError)
json_loads(m) ==
    LET body == Slice(m, 2, Len(m))
        q1 == Find(body, <<"\"">>)
        rest == Drop(body, q1)
        value == Slice(rest, 4, Len(rest) - 2)
    IN IF m = <<"{", "}">> THEN Value(<<>>)
       ELSE IF /\ StartsWith(m, <<"{", "\"">>)
               /\ q1 = 1
               /\ StartsWith(rest, <<"\"", ":", " ", "\"">>)
               /\ Len(rest) >= 6
               /\ Slice(rest, Len(rest) - 2, Len(rest)) = <<"\"", "}">>
               /\ Find(value, <<"\"">>) = -1
            THEN Value(<< <<Unescaped(Take(body, q1))[1], Unescaped(value)>> >>)
            ELSE Raised

RECURSIVE encode_items(_)
\* _encode_message, lines 43-52, for a list of objects
encode_items(data) ==
    IF data = <<>> THEN <<>>
    ELSE LET payload == json_dumps(Head(data))
         IN MESSAGE_PREFIX \o StrOfInt(Len(payload)) \o MESSAGE_PREFIX \o payload
               \o encode_items(Tail(data))
_encode_message(data) == encode_items(data)

RECURSIVE decode_frames(_)
\* The loop of _decode_message, lines 55-65: the payloads it cuts from msg
decode_frames(msg) ==
    IF ~StartsWith(msg, MESSAGE_PREFIX) THEN [raised |-> FALSE, decoded |-> <<>>]
    ELSE LET m1 == Drop(msg, Len(MESSAGE_PREFIX))
             sep == Find(m1, MESSAGE_PREFIX)
             length == IntOfStr(Take(m1, sep))
             start == sep + Len(MESSAGE_PREFIX)
             end == start + length.v
             rest == decode_frames(Drop(m1, end))
         IN IF sep = -1 THEN [raised |-> FALSE, decoded |-> <<>>]
            ELSE IF length.kind = "raise" THEN [raised |-> TRUE, decoded |-> <<>>]
            ELSE [raised |-> rest.raised, decoded |-> <<Slice(m1, start, end)>> \o rest.decoded]

RECURSIVE decode_events(_)
\* The loop of _decode_message, lines 67-76: a payload that starts with { and
\* parses is an event; a heartbeat is sent back and gives no event
decode_events(decoded) ==
    IF decoded = <<>> THEN <<>>
    ELSE LET m == Head(decoded)
             obj == json_loads(m)
         IN (IF StartsWith(m, <<"{">>) /\ ~StartsWith(m, <<"~", "h", "~">>) /\ obj.kind = "value"
             THEN <<obj.v>> ELSE <<>>) \o decode_events(Tail(decoded))

\* _decode_message, lines 54-77
_decode_message(msg) ==
    LET f == decode_frames(msg)
    IN IF f.raised THEN Raised ELSE Value(decode_events(f.decoded))

\* A list of objects is encoded and the message is decoded
EncodeDecode(data) ==
    /\ call' = [fn |-> "codec", data |-> data, msg |-> _encode_message(data),
                events |-> _decode_message(_encode_message(data))]
    /\ UNCHANGED <<engineVars, dispVars, scalerVars, eventVars, streamVars, screenVars,
                   scanVars>>

RECURSIVE ListsOf(_, _)
ListsOf(S, n) ==
    IF n = 0 THEN {<<>>}
    ELSE ListsOf(S, n - 1) \cup {Append(l, x) : l \in ListsOf(S, n - 1), x \in S}

NextCodec == \E data \in ListsOf(Payloads, MaxFrames) : EncodeDecode(data)

----------------------------------------------------------------------------
(* Properties of the alert engine, checked under SpecEngine                  *)

\* The condition of an alert at a tick, as the alert states it
ConditionHolds(alert, update) ==
    /\ alert.shape.rhs_type = "constant"
    /\ ApplyOperator(alert.shape.operator, update.ltp, alert.shape.constant)

EngineQuiet == phase \in {"synced", "listening", "streaming"} /\ feed = <<>>
                  /\ tick.pc = "idle"

\* C1: once startup is over and every change-feed handler and on_tick has run
\* to completion, the symbols subscribed on the provider are exactly the
\* symbols that have an alert in the Alert Manager.
C1_SubscribedIsManagerSymbols ==
    EngineQuiet => subscribed = ManagerSymbols(alerts_by_symbol)

\* C3: a tick at which the condition of an alert of its symbol holds does not
\* end with an exception that leaves the alert in the Alert Manager: the alert
\* is removed and a failure is only logged.
C3_FiredAlertIsRemoved ==
    tick.pc = "raised" =>
       \A a \in Range(get_alerts_for_symbol(alerts_by_symbol, tick.update[1].symbol)) :
           ~ConditionHolds(a, tick.update[1])

\* Scenario S1: A, with operator > and constant 100, is the only alert and is
\* on X; the engine streams and no tick is being handled
S1Alert == [id |-> "A", symbol |-> "X", shape |-> ConstantGT100]
S1State ==
    /\ phase = "streaming"
    /\ tick.pc = "idle"
    /\ alerts_by_symbol = <<[symbol |-> "X", alerts |-> <<S1Alert>>]>>
    /\ subscribed = {"X"}

\* C4: in scenario S1 a tick either changes nothing (its price is not above
\* 100) or fires A: A is enqueued to the dispatcher and the store is asked to
\* mark it triggered.  No tick does anything else.
C4_S1TickFiresOrKeeps ==
    [][(S1State /\ store' = store /\ feed' = feed) =>
          \/ UNCHANGED engineVars
          \/ /\ enqueued' = Append(enqueued, "A")
             /\ tick'.pc = "mark"
             /\ tick'.alert = <<S1Alert>>]_vars

\* The <<bucket, position>> pairs of the index that hold the id
EntriesOf(m, id) ==
    {p \in UNION {{<<i, j>> : j \in DOMAIN m[i].alerts} : i \in DOMAIN m} :
        m[p[1]].alerts[p[2]].id = id}

\* C32: in every state of the Alert Manager no two entries of the index have
\* the same id and no bucket is empty; and when the handler of an update
\* event has run, the index has exactly one entry with the id of the alert,
\* in the bucket of the symbol the alert has now.
C32_IndexHasUniqueIds ==
    /\ [](/\ \A id \in Ids : Cardinality(EntriesOf(alerts_by_symbol, id)) <= 1
          /\ \A i \in DOMAIN alerts_by_symbol : alerts_by_symbol[i].alerts # <<>>)
    /\ [][(feed # <<>> /\ feed' = Tail(feed) /\ Head(feed).kind = "update") =>
             LET a == Head(feed).alert IN
             /\ Cardinality(EntriesOf(alerts_by_symbol', a.id)) = 1
             /\ \A p \in EntriesOf(alerts_by_symbol', a.id) :
                    /\ alerts_by_symbol'[p[1]].symbol = a.symbol
                    /\ alerts_by_symbol'[p[1]].alerts[p[2]] = a]_vars

\* Both alerts are in one bucket and the provider is subscribed to a symbol
\* without a bucket: the handler of an update has moved an alert to the
\* bucket of the other
C32_Witness ==
    /\ feed = <<>>
    /\ \E i \in DOMAIN alerts_by_symbol : Len(alerts_by_symbol[i].alerts) = 2
    /\ subscribed \ ManagerSymbols(alerts_by_symbol) # {}

\* The live alerts of the store: is_active and deleted_at = null
LiveAlerts(st) == {Alert(id, st[id]) : id \in {i \in DOMAIN st : LiveRow(st[i])}}

\* C33: startup sync leaves in the Alert Manager exactly the live alerts of
\* the store, with the provider subscribed to the symbol of each, so no
\* inactive and no soft-deleted alert is loaded; and the handler of an update
\* event whose row is soft-deleted or inactive leaves the manager without the
\* alert.
C33_SyncLoadsLiveAlerts ==
    /\ [][(phase = "init" /\ phase' = "synced") =>
             /\ ManagerAlerts(alerts_by_symbol') = LiveAlerts(store)
             /\ subscribed' = {a.symbol : a \in LiveAlerts(store)}]_vars
    /\ [][(feed # <<>> /\ feed' = Tail(feed) /\ Head(feed).kind = "delete") =>
             Head(feed).alert.id \notin ManagerIds(alerts_by_symbol')]_vars

----------------------------------------------------------------------------
(* Properties of the dispatcher, checked under SpecDispatcher                *)

\* Alerts taken from the queue so far
Taken == Len(enqLog) - Len(queue)

\* The handler calls made so far are, in this order: for the alerts in the
\* order of their enqueueing, the handlers in the order of their registration,
\* each call over before the next is made
CallsInOrder ==
    /\ \A p \in DOMAIN callLog :
          /\ callLog[p].k \in 1..Taken
          /\ callLog[p].i \in DOMAIN handlers
          /\ callLog[p].handler = handlers[callLog[p].i]
          /\ p < Len(callLog) => callLog[p].res # "pending"
    /\ callLog # <<>> => callLog[1].k = 1 /\ callLog[1].i = 1
    /\ \A p \in 1..(Len(callLog) - 1) :
          \/ callLog[p + 1].k = callLog[p].k /\ callLog[p + 1].i = callLog[p].i + 1
          \/ callLog[p + 1].k = callLog[p].k + 1 /\ callLog[p + 1].i = 1
    /\ \A j \in DOMAIN queue : queue[j] = [id |-> enqLog[Taken + j], k |-> Taken + j]
    /\ dloop.pc = "await" =>
          /\ dloop.k = Taken
          /\ callLog[Len(callLog)] = [k |-> dloop.k, i |-> dloop.i,
                                      handler |-> handlers[dloop.i], res |-> "pending"]
    /\ dloop.pc = "get" /\ callLog # <<>> => callLog[Len(callLog)].k = Taken

\* The loop leaves an alert only after the last registered handler
LeavesAfterLastHandler ==
    (dloop.pc = "await" /\ (dloop'.pc = "get" \/ dloop'.k # dloop.k))
        => dloop.i = Len(handlers)

\* C5: the dispatcher handles the alerts in the order of their enqueueing, one
\* at a time; for each it invokes every registered handler in registration
\* order, and it starts on the next alert only when all handlers of the
\* current one have returned or failed.
C5_FifoSerialDispatch == []CallsInOrder /\ [][LeavesAfterLastHandler]_vars

C5_Witness ==
    /\ Len(handlers) >= 2
    /\ enqLog # <<>> /\ \E j \in DOMAIN enqLog : enqLog[j] # enqLog[1]
    /\ \E p \in DOMAIN callLog : callLog[p].k = 2 /\ callLog[p].i = 2

\* What the loop does when the handler it awaits raises
AfterHandlerRaises ==
    (/\ dloop.pc = "await"
     /\ Len(callLog') >= Len(callLog)
     /\ callLog'[Len(callLog)].res = "err")
        => IF dloop.i < Len(handlers)
           THEN /\ dloop' = [pc |-> "await", k |-> dloop.k, i |-> dloop.i + 1]
                /\ callLog'[Len(callLog')] =
                      [k |-> dloop.k, i |-> dloop.i + 1,
                       handler |-> handlers[dloop.i + 1], res |-> "pending"]
           ELSE IF queue # <<>>
           THEN /\ dloop' = [pc |-> "await", k |-> Head(queue).k, i |-> 1]
                /\ queue' = Tail(queue)
           ELSE dloop'.pc = "get"

\* C6: when a handler raises, the handlers registered after it are still
\* invoked for the alert, and the dispatch loop is never ended: it goes on to
\* the alerts enqueued afterwards.
C6_HandlerFailureIsIsolated == [](dloop.pc # "dead") /\ [][AfterHandlerRaises]_vars

C6_Witness ==
    \E p, q, r \in DOMAIN callLog :
        /\ callLog[p].res = "err" /\ callLog[p].i = 1
        /\ callLog[q].k = callLog[p].k /\ callLog[q].i = 2
        /\ callLog[r].k = callLog[p].k + 1

----------------------------------------------------------------------------
(* Properties of the Scaler, checked under SpecScaler (one caller) and       *)
(* SpecScalerConcurrent (several callers)                                    *)

NoCallInProgress == \A k \in DOMAIN calls : calls[k].op = "idle"

RECURSIVE TotalTickers(_)
TotalTickers(ns) ==
    IF ns = <<>> THEN 0 ELSE Cardinality(Head(ns).tickers) + TotalTickers(Tail(ns))

\* C7: every node holds at most max_tickers_per_connection tickers, there are
\* at most max_connections nodes, and so at most max_connections x
\* max_tickers_per_connection tickers are assigned.
C7_NodesWithinCaps ==
    /\ \A i \in DOMAIN nodes : Cardinality(nodes[i].tickers) <= max_tickers_per_connection
    /\ Len(nodes) <= max_connections
    /\ TotalTickers(nodes) <= max_connections * max_tickers_per_connection

\* C8: ticker t maps to node n in ticker_to_node exactly if n is a node and t
\* is in its ticker set, and no ticker is in the sets of two nodes; stated for
\* the states in which no call is in progress.
C8_TickerMapAgreesWithNodes ==
    NoCallInProgress =>
       /\ \A t \in DOMAIN ticker_to_node :
             /\ ticker_to_node[t] \in NodeIds(nodes)
             /\ t \in NodeTickers(nodes, ticker_to_node[t])
       /\ \A i \in DOMAIN nodes : \A t \in nodes[i].tickers :
             /\ t \in DOMAIN ticker_to_node
             /\ ticker_to_node[t] = nodes[i].id
       /\ \A i, j \in DOMAIN nodes : i # j => nodes[i].tickers \cap nodes[j].tickers = {}

\* No slot is free and no node can be created
CapacityExhausted(ns) ==
    /\ Len(ns) >= max_connections
    /\ \A i \in DOMAIN ns : Cardinality(ns[i].tickers) >= max_tickers_per_connection

\* C9: whatever list add_tickers is called with when no call is in progress,
\* the tickers already assigned stay where they are, nodes that existed gain
\* tickers only in their free slots, and every new ticker of the list is
\* assigned unless the capacity is exhausted, an earlier ticker of the list
\* never being left out for a later one.
C9_AddAssignsInListOrder ==
    NoCallInProgress =>
       \A list \in TickerLists :
          LET new_tickers == NewTickers(list, ticker_to_node)
              acc == NodeAssignments(nodes, new_tickers)
              applied == ApplyAssignments(acc, nodes, ticker_to_node)
              assigned(t) == t \in DOMAIN applied.ticker_to_node
          IN /\ \A t \in DOMAIN ticker_to_node :
                   assigned(t) /\ applied.ticker_to_node[t] = ticker_to_node[t]
             /\ \A i \in DOMAIN nodes :
                   /\ applied.nodes[i].id = nodes[i].id
                   /\ nodes[i].tickers \subseteq applied.nodes[i].tickers
                   /\ Cardinality(nodes[i].tickers) <= max_tickers_per_connection
                         => Cardinality(applied.nodes[i].tickers)
                               <= max_tickers_per_connection
             /\ \A p \in DOMAIN new_tickers :
                   \/ assigned(new_tickers[p])
                   \/ /\ CapacityExhausted(applied.nodes)
                      /\ \A q \in DOMAIN new_tickers : q > p => ~assigned(new_tickers[q])

\* C10: remove_tickers cancels the task of no node that still has tickers, and
\* when the call is over no node with an empty ticker set is left; the tickers
\* it removed are in no node.
C10_RemoveKeepsRunningNodes ==
    /\ \A loc \in TaskLocs(Scaler) :
          loc.task.cancel = "remove" =>
             \/ NodeIndex(nodes, loc.task.node) = 0
             \/ NodeTickers(nodes, loc.task.node) = {}
    /\ NoCallInProgress => \A i \in DOMAIN nodes : nodes[i].tickers # {}
    /\ \A i \in DOMAIN nodes : nodes[i].tickers \subseteq DOMAIN ticker_to_node

\* The tasks of _run_node that run: not finished and not cancelled
UncancelledTasks(S) ==
    {loc \in TaskLocs(S) : loc.task.state # "done" /\ loc.task.cancel = ""}

\* C35: no two running stream tasks are of the same node, whatever calls of
\* add_tickers and remove_tickers are suspended; and when no call is in
\* progress every running stream task is of a node that is in nodes and has
\* tickers.
C35_OneRunningTaskPerNode ==
    /\ \A l1, l2 \in UncancelledTasks(Scaler) : l1.task.node = l2.task.node => l1 = l2
    /\ NoCallInProgress =>
          \A loc \in UncancelledTasks(Scaler) :
              /\ NodeIndex(nodes, loc.task.node) # 0
              /\ NodeTickers(nodes, loc.task.node) # {}

\* The ticker set of node n, empty for a node that does not exist
TickersOf(ns, n) == IF NodeIndex(ns, n) = 0 THEN {} ELSE NodeTickers(ns, n)

\* The nodes whose task, streamer or queue a step has touched
TouchedNodes ==
    {n \in 1..(max_connections + 1) :
        \/ (n \in DOMAIN node_tasks) # (n \in DOMAIN node_tasks')
        \/ n \in DOMAIN node_tasks /\ n \in DOMAIN node_tasks'
              /\ node_tasks'[n] # node_tasks[n]
        \/ (n \in event_queues) # (n \in event_queues')
        \/ (n \in DOMAIN qitems) # (n \in DOMAIN qitems')
        \/ n \in DOMAIN qitems /\ n \in DOMAIN qitems' /\ qitems'[n] # qitems[n]
        \/ (n \in DOMAIN node_streamers) # (n \in DOMAIN node_streamers')
        \/ n \in DOMAIN node_streamers /\ n \in DOMAIN node_streamers'
              /\ node_streamers'[n] # node_streamers[n]}

\* After a step of a call of add_tickers that is to restart the nodes of
\* `changed`: the nodes the call has not come to yet are untouched, the node
\* it waits for has lost its task, which is cancelled, and every other node of
\* `changed` has a new task with the tickers the node has now, and an empty
\* queue; no other node is touched
RestartsExactly(changed) ==
    LET c == calls'[1]
        waiting == IF c.op = "idle" THEN {} ELSE {c.node}
        pending == IF c.op = "idle" THEN {} ELSE Range(c.todo)
    IN /\ TouchedNodes \subseteq changed \ pending
       /\ c.op # "idle" =>
             /\ c.op = "add" /\ c.pc = "restart_wait"
             /\ c.node \in changed \ pending
             /\ c.node \notin DOMAIN node_tasks'
             /\ c.task # <<>> /\ c.task[1].node = c.node
             /\ c.task[1].state # "done" => c.task[1].cancel = "add"
       /\ \A n \in changed \ (pending \cup waiting) :
             /\ n \in DOMAIN node_tasks'
             /\ node_tasks'[n].state = "created"
             /\ node_tasks'[n].cancel = ""
             /\ node_tasks'[n].tickers = TickersOf(nodes', n)
             /\ n \in event_queues' /\ qitems'[n] = <<>>

\* C36: a call of add_tickers restarts exactly the nodes whose ticker set it
\* changed: the task of such a node is cancelled and, when it has finished, a
\* new task is started with all the tickers of the node on a new queue; a
\* node that got no ticker keeps its task, its streamer and its queue, and a
\* call whose tickers are all assigned changes no node and restarts none.
C36_AddRestartsChangedNodes ==
    [][/\ \A list \in TickerLists :
             (NoCallInProgress /\ AddTickers(list)) =>
                 /\ RestartsExactly({n \in 1..(max_connections + 1) :
                                        TickersOf(nodes', n) # TickersOf(nodes, n)})
                 /\ NewTickers(list, ticker_to_node) = <<>> =>
                       /\ nodes' = nodes /\ ticker_to_node' = ticker_to_node
                       /\ TouchedNodes = {} /\ calls' = calls
       /\ (calls[1].op = "add" /\ ResumeCall(1)) =>
             /\ nodes' = nodes
             /\ RestartsExactly({calls[1].node} \cup Range(calls[1].todo))]_vars

----------------------------------------------------------------------------
(* Properties of the change-feed handlers, checked under SpecFeedHandlers    *)

\* The calls of the provider that the handlers of alert id have not finished
CallsBy(id) == {k \in DOMAIN calls : calls[k].op # "idle" /\ calls[k].by = id}

\* C34: the events of the change feed on one alert id take effect one after
\* the other: the handler of an event does not start while a call the handler
\* of an earlier event on the id made of the provider is not over; and when
\* every handler has run to its end the symbols subscribed are those that
\* handling the events one at a time, in the order of the feed, gives.
C34_EventsOfAnIdLinearised ==
    /\ [][(feed # <<>> /\ feed' = Tail(feed)) => CallsBy(Head(feed).alert.id) = {}]_vars
    /\ []((feed = <<>> /\ NoCallInProgress) => DOMAIN ticker_to_node = subscribed)

----------------------------------------------------------------------------
(* Properties of quote_events() and stop(), checked under SpecQuoteEvents    *)

\* C11: quote_events() yields the events of one ticker in the order in which
\* the node tasks produced them: of two yielded events of the same ticker the
\* one yielded first was produced first, so none is reordered or yielded twice,
\* whatever was yielded in between for other nodes.
C11_TickerEventsInOrder ==
    \A i, j \in DOMAIN yielded :
        (i < j /\ yielded[i].ticker = yielded[j].ticker) =>
            yielded[i].seq < yielded[j].seq

\* Two events of one ticker were yielded, and two events of different nodes
\* were yielded against the order of their production
C11_Witness ==
    /\ \E i, j \in DOMAIN yielded : i < j /\ yielded[i].ticker = yielded[j].ticker
    /\ \E i, j \in DOMAIN yielded : i < j /\ yielded[i].seq > yielded[j].seq

\* A _run_node task that has not finished, wherever it is held
RunningTasks == {loc \in TaskLocs(Scaler) : loc.task.state # "done"}

StopCancelsAll ==
    (stopcall = "idle" /\ stopcall' = "gather") =>
        /\ ~running'
        /\ \A n \in DOMAIN node_tasks' :
              node_tasks'[n].state = "done" \/ node_tasks'[n].cancel # ""

StopLeavesEmpty ==
    (stopcall = "gather" /\ stopcall' = "idle") =>
        /\ RunningTasks = {}
        /\ nodes' = <<>> /\ ticker_to_node' = <<>> /\ node_tasks' = <<>>
        /\ node_streamers' = <<>> /\ event_queues' = {} /\ qitems' = <<>>

CancelledTaskIsSilent ==
    (\E loc \in TaskLocs(Scaler) : TaskCancelled(loc)) =>
        UNCHANGED <<consumer, yielded, qitems>>

\* C12: stop() on a running Scaler requests the cancellation of every node
\* task and clears running; it returns only when no _run_node task is left
\* unfinished, and then nodes, ticker_to_node, node_tasks, node_streamers and
\* the event queues are empty.  The end of a cancelled task changes nothing
\* the consumer holds or has yielded.  A stop() that was called returns, and a
\* quote_events() consumer ends once the Scaler is stopped, unless the Scaler
\* is started again.
C12_StopCancelsAndDrains ==
    /\ [][StopCancelsAll /\ StopLeavesEmpty /\ CancelledTaskIsSilent]_vars
    /\ (stopcall = "gather") ~> (stopcall = "idle")
    /\ (~running /\ consumer.pc \in {"loop", "yield"}) ~> (consumer.pc = "ended" \/ running)

\* stop() has returned on a Scaler that had streamed quotes, and the consumer,
\* which had yielded events, has ended
C12_Witness ==
    /\ ~running /\ stopcall = "idle"
    /\ nodes = <<>> /\ node_tasks = <<>>
    /\ quotes # {}
    /\ yielded # <<>>
    /\ consumer.pc = "ended"

----------------------------------------------------------------------------
(* Properties of the quote streamer, checked under SpecStreamer and          *)
(* SpecStreamerFair                                                          *)

\* C13: every QUOTE_UPDATE emitted for a ticker comes after a QUOTE_COMPLETED
\* emitted for that ticker on the same connection, so an update received
\* before it is not forwarded; and a QUOTE_COMPLETED carries every field
\* received for its ticker on the connection so far, with its last value.
C13_UpdateOnlyAfterCompleted ==
    \A j \in DOMAIN shist.emitted :
        LET e == shist.emitted[j] IN
        /\ e.type = "quote_update" =>
              \E i \in 1..(j - 1) :
                  /\ shist.emitted[i].type = "quote_completed"
                  /\ shist.emitted[i].ticker = e.ticker
                  /\ shist.emitted[i].conn = e.conn
        /\ e.type = "quote_completed" =>
              \A f \in DOMAIN e.seen : f \in DOMAIN e.data /\ e.data[f] = e.seen[f]

\* An update came before the marker of its ticker and was kept back, the
\* marker carried it, and a later update of the ticker was forwarded
C13_Witness ==
    \E i, j \in DOMAIN shist.emitted :
        /\ i < j
        /\ shist.emitted[i].type = "quote_completed"
        /\ shist.emitted[i].seen # <<>>
        /\ shist.emitted[j].type = "quote_update"
        /\ shist.emitted[j].ticker = shist.emitted[i].ticker
        /\ shist.emitted[j].conn = shist.emitted[i].conn
        /\ \A k \in 1..(i - 1) : shist.emitted[k].type # "quote_update"

FinalErrors == {i \in DOMAIN shist.emitted : shist.emitted[i].msg = "max"}

\* C14: stream_quotes connects at most reconnect_attempts + 1 times, the first
\* time at once and every other time after a sleep of reconnect_delay; out of
\* attempts it emits one last ERROR and ends; once ended it connects and
\* emits no more; and with connections that keep failing it does end.
C14_BoundedReconnect ==
    /\ [](/\ shist.connects <= reconnect_attempts + 1
          /\ shist.connects > 0 => shist.sleeps = shist.connects - 1
          /\ Cardinality(FinalErrors) <= 1
          /\ (stream.pc = "ended" /\ stream.attempts > reconnect_attempts) =>
                 FinalErrors = {Len(shist.emitted)})
    /\ [][stream.pc = "ended" => (stream' = stream /\ shist' = shist)]_vars
    /\ <>(stream.pc = "ended")

\* The stream ended out of attempts, after a connection that had been made
C14_Witness ==
    /\ stream.pc = "ended"
    /\ stream.attempts > reconnect_attempts
    /\ shist.connects = reconnect_attempts + 1
    /\ \E i \in DOMAIN shist.emitted : shist.emitted[i].type = "connected"

\* C15: a connection made by stream_quotes starts with no stored quote and no
\* completed ticker, and with exactly the requested tickers subscribed.
C15_ReconnectWipesQuoteState ==
    [][(shist'.connects > shist.connects /\ stream'.socket) =>
          /\ stream'.quotes = <<>>
          /\ stream'.completed = {}
          /\ stream'.session = Range(StreamTickers)]_vars

\* The messages that report an error of the wire (line 156)
WireErrors == {m \in Messages : m.m \in {"critical_error", "protocol_error"}}

\* C31: a critical_error or protocol_error message received from the wire is
\* emitted to the consumer as an ERROR event and takes one unit of the
\* reconnect budget: attempts grows by one, as it does for a failed connection.
C31_WireErrorCountsAsAttempt ==
    [][\A m \in WireErrors :
          StreamMessage(m) =>
              /\ Len(shist'.emitted) = Len(shist.emitted) + 1
              /\ shist'.emitted[Len(shist'.emitted)].type = "error"
              /\ stream'.attempts = stream.attempts + 1]_vars

----------------------------------------------------------------------------
(* Properties of the screener sessions, checked under SpecScreener           *)

\* The request a step handles, and the messages the step sends for it
StepHandles(t) ==
    /\ Len(wlog') > Len(wlog)
    /\ wlog'[Len(wlog) + 1].dir = "in"
    /\ wlog'[Len(wlog) + 1].m.t = t
StepReq == wlog'[Len(wlog) + 1].m
StepOut == [i \in 1..(Len(wlog') - Len(wlog) - 1) |-> wlog'[Len(wlog) + 1 + i].m]
StepOnSession(t) == StepHandles(t) /\ StepReq.session_id \in DOMAIN wss.ss
ValidRange(r) == ~(r[2] < r[1] \/ r[2] < 0)

\* C16: a SCREENER_SUBSCRIBE for a session_id of the table sends
\* SCREENER_DUPLICATE and changes neither the table nor any session or task.
C16_DuplicateSubscribeAnswered ==
    [][StepOnSession("SCREENER_SUBSCRIBE") =>
          /\ StepOut = <<[t |-> "SCREENER_DUPLICATE", session_id |-> StepReq.session_id]>>
          /\ wss' = wss]_vars

\* C17: a SCREENER_SUBSCRIBE that makes a session with a valid range sends
\* SCREENER_SUBSCRIBED and then the SCREENER_FULL_RESPONSE of the range; a
\* SCREENER_PATCH that sets a field, on a session whose range is then valid,
\* sends SCREENER_PATCHED and then the SCREENER_FULL_RESPONSE of the patched
\* session.
C17_SubscribedThenFullResponse ==
    [][/\ (/\ StepHandles("SCREENER_SUBSCRIBE")
           /\ StepReq.session_id \notin DOMAIN wss.ss
           /\ ValidRange(wss'.ss[StepReq.session_id].range)) =>
              StepOut = <<[t |-> "SCREENER_SUBSCRIBED", session_id |-> StepReq.session_id]>>
                           \o FullResponse(wss'.ss[StepReq.session_id])
       /\ (/\ StepOnSession("SCREENER_PATCH")
           /\ StepReq.present # {}
           /\ ValidRange(wss'.ss[StepReq.session_id].range)) =>
              StepOut = <<[t |-> "SCREENER_PATCHED", session_id |-> StepReq.session_id]>>
                           \o FullResponse(wss'.ss[StepReq.session_id])]_vars

\* C18: a SCREENER_PATCH on a session sets the fields present in the request
\* and leaves every other field, every other session and the connection as
\* they were.  With no field present nothing is sent and nothing changes;
\* else SCREENER_PATCHED is sent first, then what dispatch_full_response sends
\* for the patched session, and live_symbols is that of the patched session.
C18_PatchSetsPresentFieldsOnly ==
    [][StepOnSession("SCREENER_PATCH") =>
          LET req == StepReq
              sid == req.session_id
              old == wss.ss[sid]
              new == wss'.ss[sid]
          IN /\ DOMAIN wss'.ss = DOMAIN wss.ss
             /\ \A o \in DOMAIN wss.ss \ {sid} : wss'.ss[o] = wss.ss[o]
             /\ [wss' EXCEPT !.ss = wss.ss] = wss
             /\ \A f \in {"filter_merge", "columns", "filters", "range", "sort"} \ req.present :
                   new[f] = old[f]
             /\ \A f \in {"session_id", "gen", "token", "universe", "task"} : new[f] = old[f]
             /\ \A f \in {"filter_merge", "filters", "range"} \cap req.present :
                   new[f] = req[f]
             /\ "sort" \in req.present => new.sort = Append(req.sort, NameAsc)
             /\ "columns" \in req.present => new.columns = req.columns
             /\ IF req.present = {}
                THEN StepOut = <<>> /\ new = old
                ELSE /\ StepOut[1] = [t |-> "SCREENER_PATCHED", session_id |-> sid]
                     /\ Tail(StepOut) = FullResponse(new)
                     /\ new.live_symbols = LiveSymbols(new)]_vars

\* A patch of the range alone was answered with SCREENER_PATCHED and a full
\* response, on a session that keeps the filter it was subscribed with
C18_Witness ==
    \E i \in DOMAIN wlog :
        /\ i + 2 <= Len(wlog)
        /\ wlog[i].dir = "in" /\ wlog[i].m.t = "SCREENER_PATCH"
        /\ wlog[i].m.present = {"range"}
        /\ wlog[i + 1].m.t = "SCREENER_PATCHED"
        /\ wlog[i + 2].m.t = "SCREENER_FULL_RESPONSE"
        /\ wlog[i].m.session_id \in DOMAIN wss.ss
        /\ wss.ss[wlog[i].m.session_id].filters = <<FBig>>

\* The rows at the positions start to end - 1 of a list, counted from 0
RowsAt(all, start, end) ==
    LET last == IF end < Len(all) THEN end ELSE Len(all)
    IN [i \in 1..(last - start) |-> all[start + i]]

C20_UnsubscribeEndsSession ==
    /\ [][StepOnSession("SCREENER_UNSUBSCRIBE") =>
             /\ StepReq.session_id \notin DOMAIN wss'.ss
             /\ \A s \in wss'.popped : s.gen # wss.ss[StepReq.session_id].gen]_vars
    /\ [][\A i \in (Len(wlog) + 1)..Len(wlog') :
             (wlog'[i].dir = "out" /\ wlog'[i].m.t = "SCREENER_PARTIAL_RESPONSE") =>
                \E sid \in DOMAIN wss.ss : wss.ss[sid].gen = wlog'[i].m.gen]_vars
    /\ [][(StepHandles("SCREENER_SUBSCRIBE") /\ StepReq.session_id \notin DOMAIN wss.ss) =>
             LET s == wss'.ss[StepReq.session_id]
             IN /\ s.gen > wss.made
                /\ s.task = "running"
                /\ s.filters = StepReq.filters
                /\ s.universe = StepReq.universe]_vars

\* A session that had sent a partial response was unsubscribed, and its
\* session_id was subscribed again
C20_Witness ==
    \E i, j, k \in DOMAIN wlog :
        /\ i < j /\ j < k
        /\ wlog[i].dir = "out" /\ wlog[i].m.t = "SCREENER_PARTIAL_RESPONSE"
        /\ wlog[j].dir = "in" /\ wlog[j].m.t = "SCREENER_UNSUBSCRIBE"
        /\ wlog[j].m.session_id = wlog[i].m.session_id
        /\ wlog[k].dir = "in" /\ wlog[k].m.t = "SCREENER_SUBSCRIBE"
        /\ wlog[k].m.session_id = wlog[i].m.session_id
        /\ wlog[k].m.session_id \in DOMAIN wss.ss
        /\ wss.ss[wlog[k].m.session_id].gen > wlog[i].m.gen

\* C21: once the client has disconnected, the table of sessions is empty and
\* no realtime task of a session of the connection is running.
C21_DisconnectStopsEveryTask ==
    wss.conn = "closed" =>
        /\ DOMAIN wss.ss = {}
        /\ \A s \in wss.popped : s.task # "running"

\* The cycle a step runs, the session of the table it belongs to, and the
\* messages it sends
StepCycles ==
    /\ Len(wlog') > Len(wlog)
    /\ wlog'[Len(wlog) + 1].dir = "cycle"
    /\ \E sid \in DOMAIN wss.ss : wss.ss[sid].gen = wlog'[Len(wlog) + 1].m.gen
StepSession ==
    wss.ss[CHOOSE sid \in DOMAIN wss.ss : wss.ss[sid].gen = wlog'[Len(wlog) + 1].m.gen]

\* C22: a cycle of the realtime loop of a subscribed session, on an open
\* connection, sends SCREENER_PARTIAL_RESPONSE messages exactly if the
\* connection has a token and the live_symbols of the session are not empty;
\* then it sends one message per batch of at most batch_size live symbols,
\* the batches in the order of live_symbols.
C22_PartialsIffTokenAndSymbols ==
    [][(StepCycles /\ wss.conn = "open") =>
          LET live == StepSession.live_symbols
              n == (Len(live) + batch_size - 1) \div batch_size
          IN IF wss.token # "" /\ Len(live) # 0
             THEN /\ Len(StepOut) = n
                  /\ \A i \in 1..n :
                        /\ StepOut[i].t = "SCREENER_PARTIAL_RESPONSE"
                        /\ StepOut[i].session_id = StepSession.session_id
                        /\ StepOut[i].d = RowsAt(live, (i - 1) * batch_size, i * batch_size)
             ELSE StepOut = <<>>]_vars

\* C28: a frame whose t is no request type is answered with the one message
\* {error: "Unknown event type"}, and the connection, its token and its
\* sessions stay as they were.
C28_UnknownTypeAnswered ==
    [][(\E tag \in UnknownTags : StepHandles(tag)) =>
          /\ Len(StepOut) = 1
          /\ StepOut[1].error = "Unknown event type"
          /\ wss' = wss]_vars

\* C30: a SCREENER_FULL_RESPONSE for a range (start, end) of a session with
\* more than end rows passing its filter carries the end - start + 1 rows at
\* the positions start to end of the filtered and sorted rows, and the number
\* of rows passing the filter as total: 50 rows for (0, 49), the rows 50 to 99
\* for (50, 99).
C30_RangeIsInclusive ==
    [][\A sid \in DOMAIN wss'.ss :
          LET s == wss'.ss[sid]
              all == query_symbols(s.columns, s.filters, s.filter_merge, s.sort, <<>>,
                                   s.universe)
          IN \A i \in 1..Len(StepOut) :
                (/\ StepOnSession("SCREENER_PATCH") \/ StepOnSession("SCREENER_SET_UNIVERSE")
                 /\ StepReq.session_id = sid
                 /\ StepOut[i].t = "SCREENER_FULL_RESPONSE"
                 /\ s.range[1] >= 0 /\ s.range[2] >= s.range[1]
                 /\ Len(all) > s.range[2]) =>
                    /\ Len(StepOut[i].d) = s.range[2] - s.range[1] + 1
                    /\ StepOut[i].d = RowsAt(all, s.range[1], s.range[2] + 1)
                    /\ StepOut[i].total = Len(all)]_vars

\* C30, amended: a SCREENER_FULL_RESPONSE for a range (start, end) of a session
\* with more than end rows passing its filter carries the end - start rows at
\* the positions start to end - 1 of the filtered and sorted rows, and the
\* number of rows passing the filter as total: 49 rows for (0, 49), the rows
\* 50 to 98 for (50, 99).
C30_RangeIsHalfOpen ==
    [][\A sid \in DOMAIN wss'.ss :
          LET s == wss'.ss[sid]
              all == query_symbols(s.columns, s.filters, s.filter_merge, s.sort, <<>>,
                                   s.universe)
          IN \A i \in 1..Len(StepOut) :
                (/\ StepOnSession("SCREENER_PATCH") \/ StepOnSession("SCREENER_SET_UNIVERSE")
                 /\ StepReq.session_id = sid
                 /\ StepOut[i].t = "SCREENER_FULL_RESPONSE"
                 /\ s.range[1] >= 0 /\ s.range[2] >= s.range[1]
                 /\ Len(all) > s.range[2]) =>
                    /\ Len(StepOut[i].d) = s.range[2] - s.range[1]
                    /\ \A k \in 1..(s.range[2] - s.range[1]) :
                          StepOut[i].d[k] = all[s.range[1] + k]
                    /\ StepOut[i].total = Len(all)]_vars

\* A session over three rows was patched to the range (0, 2) and the full
\* response carried the first two rows in the order of their names
C30_Witness ==
    \E i \in DOMAIN wlog :
        /\ wlog[i].dir = "out" /\ wlog[i].m.t = "SCREENER_FULL_RESPONSE"
        /\ wlog[i].m.range = <<0, 2>> /\ wlog[i].m.total = 3
        /\ wlog[i].m.c = <<"ticker", "name", "logo", "day_close">>
        /\ Len(wlog[i].m.d) = 2
        /\ wlog[i].m.d[1][1] = "T1" /\ wlog[i].m.d[2][1] = "T2"

\* C39: on an open connection every session of the session table has a
\* running realtime dispatcher task, also after a cycle of the task that
\* ended with an error.
C39_SessionHasRunningTask ==
    wss.conn = "open" => \A sid \in DOMAIN wss.ss : wss.ss[sid].task = "running"

----------------------------------------------------------------------------
(* Properties of the scanner, checked under SpecScanner                      *)

\* C23: every request the engine with the cache enabled has served got the
\* output (count, columns, rows in order) that an engine with the cache
\* disabled returns for it.
C23_CacheAgreement ==
    \A i \in DOMAIN scans : scans[i].status = 200 => scans[i].out = scans[i].plain

\* C24: two requests served by the engine that are the same request got the
\* same output, whatever was served between them.
C24_SameRequestSameOutput ==
    \A i, j \in DOMAIN scans :
        (scans[i].status = 200 /\ scans[j].status = 200 /\ scans[i].req = scans[j].req) =>
            scans[i].out = scans[j].out

\* A computed condition whose evaluation_period needs a value and whose value
\* is missing or not positive
NeedsValue(cond) ==
    /\ cond.condition_type = "computed"
    /\ cond.evaluation_period \in {"x_bar_ago", "within_last", "in_row"}
    /\ cond.value = <<>> \/ cond.value[1] <= 0

\* C29: a request with two columns of the same id, or with a computed
\* condition that needs a value and has none or a non-positive one, is
\* rejected and no scan is run for it.
C29_MalformedRequestRejected ==
    \A i \in DOMAIN scans :
        LET req == scans[i].req
        IN (\/ \E a, b \in DOMAIN req.columns : a # b /\ req.columns[a].id = req.columns[b].id
            \/ \E k \in DOMAIN req.conditions : NeedsValue(req.conditions[k])) =>
               scans[i].status = 422

\* The expression fails for the symbol: eval raises
Fails(symbol, expression) == evaluate_expression(symbol, expression).kind = "raise"

\* The computed columns and then the condition columns of a request
NonStatic(req) ==
    SelectSeq(req.columns, LAMBDA x : x.type = "computed")
        \o SelectSeq(req.columns, LAMBDA x : x.type = "condition")

\* C38: a scan that was run returned a result, and in it: every symbol has a
\* result for every computed condition, false where the expression fails for
\* the symbol; the symbols selected are those whose results are all true
\* under logic and, and those with a true result under logic or; every row
\* has a value for every column, null for a value column whose expression
\* fails; and a symbol selected has a row if a value column does not fail.
C38_FailureNeverAbortsScan ==
    \A i \in DOMAIN scans :
        scans[i].status = 200 =>
            LET req == scans[i].req
                res == scans[i].results
                cols == NonStatic(req)
                data == scans[i].out.data
                passes(s) == IF req.logic = "and" THEN \A k \in DOMAIN res[s] : res[s][k]
                             ELSE \E k \in DOMAIN res[s] : res[s][k]
            IN /\ scans[i].out.count = Len(data)
               /\ req.conditions # <<>> =>
                     /\ Len(res) = Len(ScanSymbols)
                     /\ \A s \in DOMAIN res :
                           /\ Len(res[s]) = Len(req.conditions)
                           /\ \A k \in DOMAIN res[s] :
                                 Fails(ScanSymbols[s], req.conditions[k].expression)
                                     => res[s][k] = FALSE
                     /\ scans[i].selected =
                           SelectSeq(ScanSymbols,
                                     LAMBDA sym : \E s \in DOMAIN res :
                                                     ScanSymbols[s] = sym /\ passes(s))
               /\ \A r \in DOMAIN data :
                     /\ Len(data[r]) = 1 + Len(cols)
                     /\ \A k \in DOMAIN cols :
                           (cols[k].type = "computed" /\ Fails(data[r][1], cols[k].expression))
                               => data[r][k + 1] = None
               /\ (\E k \in DOMAIN cols : cols[k].type = "computed"
                                             /\ ~Fails("S1", cols[k].expression)) =>
                     [r \in DOMAIN data |-> data[r][1]] = scans[i].selected

\* A scan under logic or with a condition that fails and one that holds for
\* S1 only, and with a column that fails and one that does not: S1 has the
\* one row, with null and its close
C38_Witness ==
    \E i \in DOMAIN scans :
        /\ scans[i].status = 200
        /\ scans[i].req = [conditions |-> <<CBad, CUp>>, columns |-> <<ColBad, ColClose>>,
                           logic |-> "or"]
        /\ scans[i].results = <<<<FALSE, TRUE>>, <<FALSE, FALSE>>>>
        /\ scans[i].out.data = <<<<"S1", None, Num(3)>>>>

----------------------------------------------------------------------------
(* Properties of reduce_condition_by_period, checked under SpecReduce        *)

\* The last n elements of a series, fewer if it is shorter
LastN(x, n) == SubSeq(x, IF Len(x) > n THEN Len(x) - n + 1 ELSE 1, Len(x))

\* C37: reduce_condition_by_period gives one boolean: false for an empty
\* series; for 'now' the last element; and with a value n of one or more, for
\* 'x_bar_ago' the n-th element from the end if the series has n elements and
\* false if not, for 'within_last' whether one of the last n elements is
\* true, for 'in_row' whether the series has n elements and the last n are
\* all true.
C37_ReducedByPeriod ==
    (/\ call.fn = "reduce_condition_by_period"
     /\ call.mode = "now" \/ (call.value # <<>> /\ call.value[1] >= 1)) =>
        LET x == call.bool_series
            n == call.value[1]
            last == LastN(x, n)
        IN call.result =
              Bool(/\ x # <<>>
                   /\ CASE call.mode = "now" -> x[Len(x)]
                        [] call.mode = "x_bar_ago" -> Len(x) >= n /\ last[1]
                        [] call.mode = "within_last" ->
                              \E i \in DOMAIN last : last[i]
                        [] call.mode = "in_row" ->
                              Len(x) >= n /\ \A i \in DOMAIN last : last[i])

\* in_row with 2 on a series of three elements, the last two of them true
C37_Witness ==
    /\ call.fn = "reduce_condition_by_period"
    /\ call.mode = "in_row" /\ call.value = <<2>>
    /\ call.bool_series = <<FALSE, TRUE, TRUE>>
    /\ call.result = Bool(TRUE)

----------------------------------------------------------------------------
(* Properties of evaluate_alert on trend lines, checked under SpecEvaluate   *)

\* The two points of the trend line of the call in ascending order of time,
\* the value of the line through them at the time of the tick, and the
\* result the comparison of ltp with it gives
OldPoint ==
    IF call.shape.trend_line[2].time < call.shape.trend_line[1].time
    THEN call.shape.trend_line[2] ELSE call.shape.trend_line[1]
NewPoint ==
    IF call.shape.trend_line[2].time < call.shape.trend_line[1].time
    THEN call.shape.trend_line[1] ELSE call.shape.trend_line[2]
LineAtTick ==
    IF NewPoint.time = OldPoint.time THEN NewPoint.price
    ELSE OldPoint.price + ((NewPoint.price - OldPoint.price) * (call.update.ltt - OldPoint.time))
                             \div (NewPoint.time - OldPoint.time)
ComparedWithLine ==
    IF ApplyOperator(call.shape.operator, call.update.ltp, LineAtTick) THEN "true" ELSE "false"
TickInSpan == OldPoint.time <= call.update.ltt /\ call.update.ltt <= NewPoint.time

\* C25: for a tick whose time is within the span of the trend line,
\* evaluate_alert returns the comparison of ltp with the value at ltt of the
\* line through the two points taken in ascending order of time (the price of
\* a point at its time, the price of the later point when the times are
\* equal): with the points (0, 100) and (100, 200) and '>=', the tick
\* (50, 150) fires and the tick (50, 149.999) does not.
C25_TrendLineCompared ==
    (call.fn = "evaluate_alert" /\ TickInSpan) => call.result = ComparedWithLine

\* C26: for a tick whose time is before the earlier or after the later point
\* of the trend line, evaluate_alert does not reject the tick: it returns the
\* comparison of ltp with the value of the line extended to ltt.
C26_TrendLineExtrapolated ==
    (call.fn = "evaluate_alert" /\ ~TickInSpan) => call.result = ComparedWithLine

----------------------------------------------------------------------------
(* Properties of the framing, checked under SpecCodec                        *)

RECURSIVE FramesOf(_)
\* The frames of a list of objects: ~m~, the number of bytes of the payload,
\* ~m~, the payload
FramesOf(data) ==
    IF data = <<>> THEN <<>>
    ELSE MESSAGE_PREFIX \o StrOfInt(ByteLength(json_dumps(Head(data)))) \o MESSAGE_PREFIX
            \o json_dumps(Head(data)) \o FramesOf(Tail(data))

----------------------------------------------------------------------------
(* Specifications                                                            *)

EngineAtRest ==
    /\ store = <<>>
    /\ alerts_by_symbol = <<>>
    /\ subscribed = {}
    /\ phase = "init"
    /\ feed = <<>>
    /\ tick = IdleTick
    /\ enqueued = <<>>
    /\ marks = {}

OthersAtRest == StreamAtRest /\ ScreenerAtRest /\ ScannerAtRest /\ NoCall

InitOfEngine == InitEngine /\ InitDispatcher /\ InitScaler /\ OthersAtRest
InitAtRest == EngineAtRest /\ InitDispatcher /\ InitScaler /\ OthersAtRest

SpecEngine == InitOfEngine /\ [][NextEngine]_vars

SpecDispatcher == InitAtRest /\ [][NextDispatcher]_vars

SpecScaler == InitAtRest /\ [][NextScaler]_vars

InitConcurrent == EngineAtRest /\ InitDispatcher /\ InitScalerConcurrent /\ OthersAtRest
SpecScalerConcurrent == InitConcurrent /\ [][NextScalerConcurrent]_vars

SpecQuoteEvents == InitAtRest /\ [][NextQuoteEvents]_vars

SpecScreener == InitAtRest /\ [][NextScreener]_vars

SpecStreamer == InitAtRest /\ [][NextStreamer]_vars

SpecScanner == InitAtRest /\ [][NextScanner]_vars

SpecEvaluate == InitAtRest /\ [][NextEvaluate]_vars

SpecCodec == InitAtRest /\ [][NextCodec]_vars

SpecReduce == InitAtRest /\ [][NextReduce]_vars

SpecFeedHandlers == InitConcurrent /\ [][NextFeedHandlers]_vars

\* The loop of stream_quotes goes on, and a connection that is open fails
SpecStreamerFair ==
    /\ InitAtRest
    /\ [][NextStreamer]_vars
    /\ WF_vars(StreamConnect \/ StreamConnectFails)
    /\ WF_vars(\E type \in {"disconnected", "error"} : StreamFails(type))
    /\ WF_vars(StreamGiveUp)

\* The event loop runs a cancelled task and a call whose gather is done; the
\* consumer of quote_events() keeps iterating
SpecStopFair ==
    /\ InitAtRest
    /\ [][NextStop]_vars
    /\ WF_vars(\E loc \in TaskLocs(Scaler) : TaskCancelled(loc))
    /\ WF_vars(StopResume)
    /\ WF_vars(ConsumerLoop)
    /\ WF_vars(ConsumerYield)

=============================================================================
